---------------------------- MODULE Spec2Model ----------------------------
(***************************************************************************)
(* Model of the multi-backend dispatch layer of the transcription backend: *)
(* the LLM adapters and dispatcher (services/llm), the transcription       *)
(* adapters and dispatcher (services/transcription), the parallel          *)
(* transcription runner, the benchmark orchestrator and its endpoints, and *)
(* the standalone whisper-server the remote adapter talks to.              *)
(*                                                                         *)
(* A Python str is a sequence of tokens (TLA+ strings, each an atomic run  *)
(* of characters); '' is << >>, an f-string is a concatenation, and None   *)
(* is the reserved value None below.                                       *)
(***************************************************************************)
EXTENDS Naturals, Sequences, FiniteSets, TLC

VARIABLES
    settings,        \* app.config.settings, fixed at process start
    _model,          \* whisper_local._model: None or <<size, device>>
    _model_size,     \* whisper_local._model_size: None or the loaded size
    call,            \* the last call of generate or transcribe and its outcome
    par,             \* the call of transcribe_parallel in progress
    bench,           \* the benchmark comparison in progress
    benchmark_results, \* the rows of the benchmark_results table
    request,         \* the request to a benchmark endpoint in progress
    _model_cache,    \* whisper-server app._model_cache: cache key -> model
    temp_files,      \* the temporary files on the whisper-server's disk
    server,          \* the whisper-server request in progress
    cuda_available   \* torch.cuda.is_available() on the whisper-server

\* the state of the whisper-server, a process of its own
server_vars == <<_model_cache, temp_files, server, cuda_available>>

vars == <<settings, _model, _model_size, call, par, bench, benchmark_results, request,
          server_vars>>

---------------------------------------------------------------------------
(* Python values *)

None == <<"<None>">>

\* truth value of an Optional[str]: None and '' are falsy
Truthy(s) == s # None /\ s # << >>

\* str(x) / f"{x}" of an Optional[str]
Str(x) == IF x = None THEN <<"None">> ELSE x

Whitespace == {" ", "\n"}

RECURSIVE lstrip(_)
lstrip(s) == IF s # << >> /\ Head(s) \in Whitespace THEN lstrip(Tail(s)) ELSE s

RECURSIVE rstrip(_)
rstrip(s) ==
    IF s # << >> /\ s[Len(s)] \in Whitespace THEN rstrip(SubSeq(s, 1, Len(s) - 1)) ELSE s

\* str.strip()
strip(s) == rstrip(lstrip(s))

\* str.lower(), token by token
LowerTok(t) ==
    CASE t = "CUDA" -> "cuda"
      [] t = "GPU" -> "gpu"
      [] t = "MP3" -> "mp3"
      [] t = "WAV" -> "wav"
      [] t = "Mp4" -> "mp4"
      [] OTHER -> t

lowerKeepsCase(s) == s

lower(s) == [i \in 1..Len(s) |-> LowerTok(s[i])]

\* x in s, for a one-token needle
ContainsNothing(s, x) == FALSE

Contains(s, x) == \E i \in 1..Len(s) : s[i] = x

---------------------------------------------------------------------------
(* Exceptions: [type, msg]; str(e) is msg *)

NoExc == [type |-> "none", msg |-> << >>]

Exc(type, msg) == [type |-> type, msg |-> msg]

\* the classes each exception type is an instance of (httpx and builtins)
Bases(type) ==
    CASE type = "ConnectError" -> {"ConnectError", "RequestError", "Exception"}
      [] type = "ReadTimeout" -> {"ReadTimeout", "RequestError", "Exception"}
      [] type = "HTTPStatusError" -> {"HTTPStatusError", "Exception"}
      [] type = "RuntimeError" -> {"RuntimeError", "Exception"}
      [] type = "ImportError" -> {"ImportError", "Exception"}
      [] type = "AttributeError" -> {"AttributeError", "Exception"}
      [] type = "TypeError" -> {"TypeError", "Exception"}
      [] type = "ValueError" -> {"ValueError", "Exception"}
      [] type = "OSError" -> {"OSError", "Exception"}
      [] type = "HTTPException" -> {"HTTPException", "Exception"}
      [] type = "RequestException" -> {"RequestException", "OSError", "Exception"}
      [] OTHER -> {type}

IsInstance(e, cls) == cls \in Bases(e.type)

---------------------------------------------------------------------------
(* LLM adapters: each returns (success, text, usage, error) *)

NoRet4 == [success |-> FALSE, text |-> None, usage |-> None, error |-> None]

\* the outcome of running a function: raised says that an exception left it,
\* ret is the value it returned, exc the exception raised inside it (kept
\* when a handler turned it into a return value), sent the number of
\* requests issued to the provider
Return4(v, sent) == [raised |-> FALSE, ret |-> v, exc |-> NoExc, sent |-> sent]
Raise4(e, sent) == [raised |-> TRUE, ret |-> NoRet4, exc |-> e, sent |-> sent]

Fail4(msg) == [success |-> FALSE, text |-> None, usage |-> None, error |-> msg]

\* except Exception as e: return False, None, None, str(e)
CatchAll4(b) ==
    IF b.raised /\ IsInstance(b.exc, "Exception")
    THEN [b EXCEPT !.raised = FALSE, !.ret = Fail4(Str(b.exc.msg))]
    ELSE b

\* the body of the try block of generate_with_openai; r is what the OpenAI
\* package and API do: [installed, exc, choices, usage]
openai_try(model, r) ==
    IF ~Truthy(settings.openai_api_key)
    THEN Return4(Fail4(<<"OpenAI API key not configured">>), 0)
    ELSE IF ~r.installed
    THEN Return4(Fail4(<<"OpenAI package not installed">>), 0)
    ELSE IF r.exc # NoExc
    THEN Raise4(r.exc, 1)
    ELSE LET content == IF r.choices # << >> THEN r.choices[1] ELSE None
             usage == IF r.usage # None THEN r.usage ELSE <<"null", "null">>
         IN Return4([success |-> TRUE, text |-> content,
                     usage |-> usage, error |-> None], 1)

generate_with_openai(model, r) == CatchAll4(openai_try(model, r))

\* the body of the try block of generate_with_gemini; r is
\* [installed, exc, text]
gemini_tryUnchecked(model, r) ==
    IF ~r.installed
    THEN Return4(Fail4(<<"Google GenerativeAI package not installed">>), 0)
    ELSE IF r.exc # NoExc
    THEN Raise4(r.exc, 1)
    ELSE LET content == IF Truthy(r.text) THEN r.text ELSE None
         IN Return4([success |-> TRUE, text |-> content,
                     usage |-> <<"null", "null">>, error |-> None], 1)

gemini_try(model, r) ==
    IF ~Truthy(settings.google_gemini_api_key)
    THEN Return4(Fail4(<<"Google Gemini API key not configured">>), 0)
    ELSE IF ~r.installed
    THEN Return4(Fail4(<<"Google GenerativeAI package not installed">>), 0)
    ELSE IF r.exc # NoExc
    THEN Raise4(r.exc, 1)
    ELSE LET content == IF Truthy(r.text) THEN r.text ELSE None
         IN Return4([success |-> TRUE, text |-> content,
                     usage |-> <<"null", "null">>, error |-> None], 1)

generate_with_gemini(model, r) == CatchAll4(gemini_try(model, r))

\* the body of the try block of generate_with_ollama; r is
\* [exc, status_code, has_response, response, usage]
ollama_try(model, r) ==
    IF r.exc # NoExc
    THEN Raise4(r.exc, 1)
    ELSE IF r.status_code # "200"
    THEN Return4(Fail4(<<"Ollama returned status ", r.status_code>>), 1)
    ELSE LET content == IF r.has_response THEN r.response ELSE << >>
         IN Return4([success |-> TRUE, text |-> content,
                     usage |-> r.usage, error |-> None], 1)

\* except httpx.ConnectError ... except Exception as e ...
ollama_exceptConnectOnly(b) ==
    IF b.raised /\ IsInstance(b.exc, "ConnectError")
    THEN [b EXCEPT !.raised = FALSE,
                   !.ret = Fail4(<<"Could not connect to Ollama at ">> \o settings.ollama_host)]
    ELSE b

ollama_except(b) ==
    IF b.raised /\ IsInstance(b.exc, "ConnectError")
    THEN [b EXCEPT !.raised = FALSE,
                   !.ret = Fail4(<<"Could not connect to Ollama at ">> \o settings.ollama_host)]
    ELSE CatchAll4(b)

generate_with_ollama(model, r) == ollama_except(ollama_try(model, r))


\* LLM_MODELS
LLM_MODELS ==
    (<<"gpt-4">> :> [backend |-> "openai", model |-> <<"gpt-4">>]) @@
    (<<"gpt-4-turbo">> :> [backend |-> "openai", model |-> <<"gpt-4-turbo">>]) @@
    (<<"gpt-3.5-turbo">> :> [backend |-> "openai", model |-> <<"gpt-3.5-turbo">>]) @@
    (<<"gemini-pro">> :> [backend |-> "gemini", model |-> <<"gemini-pro">>]) @@
    (<<"gemini-1.5-pro">> :> [backend |-> "gemini", model |-> <<"gemini-1.5-pro">>]) @@
    (<<"llama2">> :> [backend |-> "ollama", model |-> <<"llama2">>]) @@
    (<<"llama2:13b">> :> [backend |-> "ollama", model |-> <<"llama2:13b">>]) @@
    (<<"mistral">> :> [backend |-> "ollama", model |-> <<"mistral">>]) @@
    (<<"mixtral">> :> [backend |-> "ollama", model |-> <<"mixtral">>]) @@
    (<<"codellama">> :> [backend |-> "ollama", model |-> <<"codellama">>])

\* one adapter invocation made by a dispatcher: the adapter, its arguments
\* and the outcome of the adapter call
Invoke(adapter, args, out) == [adapter |-> adapter, args |-> args, out |-> out]

\* return await <adapter>(...): the dispatcher's outcome is the adapter's
Returning(inv) == [invoked |-> <<inv>>, out |-> inv.out]

\* a return of the dispatcher itself, no adapter invoked
Direct(out) == [invoked |-> << >>, out |-> out]

\* what the dispatcher does when the id is not in LLM_MODELS
generate_unregisteredRejects(model, w) ==
    Direct(Return4(Fail4(<<"Unknown model: ">> \o model), 0))

generate_unregistered(model, w) ==
    Returning(Invoke("generate_with_ollama", <<model>>,
                     generate_with_ollama(model, w.ollama)))

\* llm_service.generate; w is what the three providers would answer.  The
\* result is the adapter invocations made and the outcome of the call.
generate(model, w) ==
    IF model \notin DOMAIN LLM_MODELS
    THEN generate_unregistered(model, w)
    ELSE LET backend == LLM_MODELS[model].backend
             actual_model == LLM_MODELS[model].model
         IN CASE backend = "openai" ->
                   Returning(Invoke("generate_with_openai", <<actual_model>>,
                                    generate_with_openai(actual_model, w.openai)))
              [] backend = "gemini" ->
                   Returning(Invoke("generate_with_gemini", <<actual_model>>,
                                    generate_with_gemini(actual_model, w.gemini)))
              [] backend = "ollama" ->
                   Returning(Invoke("generate_with_ollama", <<actual_model>>,
                                    generate_with_ollama(actual_model, w.ollama)))
              [] OTHER ->
                   Direct(Return4(Fail4(<<"Unknown backend: ", backend>>), 0))

---------------------------------------------------------------------------
(* Transcription adapters: each returns (success, text, error) *)

NoRet3 == [success |-> FALSE, text |-> None, error |-> None]

\* outcome of an adapter body; model and model_size are the values of the
\* whisper_local cache when the call ends, loads the number of calls of
\* whisper.load_model it made
Return3(v, sent) ==
    [raised |-> FALSE, ret |-> v, exc |-> NoExc, sent |-> sent,
     model |-> _model, model_size |-> _model_size, loads |-> 0]
Raise3(e, sent) ==
    [raised |-> TRUE, ret |-> NoRet3, exc |-> e, sent |-> sent,
     model |-> _model, model_size |-> _model_size, loads |-> 0]

Fail3(msg) == [success |-> FALSE, text |-> None, error |-> msg]
Ok3(text) == [success |-> TRUE, text |-> text, error |-> None]

\* except Exception as e: return False, None, str(e)
CatchAll3(b) ==
    IF b.raised /\ IsInstance(b.exc, "Exception")
    THEN [b EXCEPT !.raised = FALSE, !.ret = Fail3(Str(b.exc.msg))]
    ELSE b

\* result.get('text', '').strip() on a reply [has_text, text]: the text, or
\* the AttributeError of None.strip()
NoneStrip == Exc("AttributeError", <<"'NoneType' object has no attribute 'strip'">>)

GetText(reply) == IF reply.has_text THEN reply.text ELSE << >>

\* whisper_local.load_whisper_model; e is what the machine does:
\* [installed, cuda_available, load1, load2, disk_cache].  The result is the
\* returned model or the raised exception, with the cache and the load count.
load_whisper_model(model_size, e) ==
    LET size == IF model_size = None THEN settings.whisper_model_size ELSE model_size
        device == IF settings.whisper_device \in {"gpu", "cuda"}
                  THEN (IF e.cuda_available THEN "cuda" ELSE "cpu")
                  ELSE settings.whisper_device
        gpu_error == IsInstance(e.load1, "RuntimeError")
                     /\ (Contains(lower(Str(e.load1.msg)), "gpu")
                         \/ Contains(lower(Str(e.load1.msg)), "cuda"))
        failed(x, n, cleared) ==
            [raised |-> TRUE,
             exc |-> IF IsInstance(x, "ImportError")
                     THEN Exc("RuntimeError",
                              <<"Whisper is not installed. Run: pip install openai-whisper">>)
                     ELSE IF IsInstance(x, "Exception")
                     THEN Exc("RuntimeError",
                              <<"Failed to load Whisper model: ">> \o Str(x.msg))
                     ELSE x,
             value |-> None, model |-> _model, model_size |-> _model_size,
             loads |-> n, cleared |-> cleared]
        loaded(dev, n, cleared) ==
            [raised |-> FALSE, exc |-> NoExc, value |-> size \o <<dev>>,
             model |-> size \o <<dev>>, model_size |-> size,
             loads |-> n, cleared |-> cleared]
    IN IF ~(_model = None \/ _model_size # size)
       THEN [raised |-> FALSE, exc |-> NoExc, value |-> _model,
             model |-> _model, model_size |-> _model_size,
             loads |-> 0, cleared |-> FALSE]
       ELSE IF ~e.installed
       THEN failed(Exc("ImportError", <<"No module named 'whisper'">>), 0, FALSE)
       ELSE IF e.load1 = NoExc
       THEN loaded(device, 1, FALSE)
       ELSE IF gpu_error
       THEN (IF e.load2 = NoExc
             THEN loaded("cpu", 2, e.disk_cache)
             ELSE failed(e.load2, 2, e.disk_cache))
       ELSE failed(e.load1, 1, FALSE)

\* the body of the try block of transcribe_with_whisper_local; e adds
\* [file_exists, exc, reply] to the fields load_whisper_model reads
whisper_local_try(audio_path, model_size, language, e) ==
    IF ~e.file_exists
    THEN Return3(Fail3(<<"Audio file not found: ">> \o audio_path), 0)
    ELSE LET m == load_whisper_model(model_size, e)
             cache(b) == [b EXCEPT !.model = m.model, !.model_size = m.model_size,
                                   !.loads = m.loads]
         IN IF m.raised
            THEN cache(Raise3(m.exc, 0))
            ELSE IF e.exc # NoExc
            THEN cache(Raise3(e.exc, 0))
            ELSE IF GetText(e.reply) = None
            THEN cache(Raise3(NoneStrip, 0))
            ELSE LET text == strip(GetText(e.reply))
                 IN IF text = << >>
                    THEN cache(Return3(Fail3(<<"Transcription resulted in empty text">>), 0))
                    ELSE cache(Return3(Ok3(text), 0))

transcribe_with_whisper_local(audio_path, model_size, language, e) ==
    CatchAll3(whisper_local_try(audio_path, model_size, language, e))


\* response.raise_for_status(): any status outside 2xx raises
Is2xx(status_code) == status_code \in {"200", "201"}

\* the body of the try block of transcribe_with_whisper_remote; e is
\* [file_exists, exc, status_code, body, is_dict, success, has_error, error,
\* reply]: the file system and the peer's answer
whisper_remote_try(audio_path, model_size, language, e) ==
    IF ~Truthy(settings.whisper_remote_url)
    THEN Return3(Fail3(<<"Whisper remote URL not configured">>), 0)
    ELSE IF ~e.file_exists
    THEN Return3(Fail3(<<"Audio file not found: ">> \o audio_path), 0)
    ELSE IF e.exc # NoExc
    THEN Raise3(e.exc, 1)
    ELSE IF ~Is2xx(e.status_code)
    THEN Raise3(Exc("HTTPStatusError", <<e.status_code>> \o <<" - ">> \o e.body), 1)
    ELSE IF ~e.is_dict
    THEN Raise3(Exc("AttributeError", <<"'list' object has no attribute 'get'">>), 1)
    ELSE IF e.success # "true"
    THEN Return3(Fail3(IF e.has_error THEN e.error ELSE <<"Transcription failed">>), 1)
    ELSE IF GetText(e.reply) = None
    THEN Raise3(NoneStrip, 1)
    ELSE LET text == strip(GetText(e.reply))
         IN IF text = << >>
            THEN Return3(Fail3(<<"Transcription resulted in empty text">>), 1)
            ELSE Return3(Ok3(text), 1)

\* the three except clauses of transcribe_with_whisper_remote
whisper_remote_exceptGeneric(b) ==
    IF b.raised /\ IsInstance(b.exc, "Exception")
    THEN [b EXCEPT !.raised = FALSE,
                   !.ret = Fail3(<<"Transcription failed: ">> \o Str(b.exc.msg))]
    ELSE b

whisper_remote_except(b) ==
    LET fail(msg) == [b EXCEPT !.raised = FALSE, !.ret = Fail3(msg)]
    IN IF ~b.raised
       THEN b
       ELSE IF IsInstance(b.exc, "HTTPStatusError")
       THEN fail(<<"HTTP error from Whisper server: ">> \o b.exc.msg)
       ELSE IF IsInstance(b.exc, "RequestError")
       THEN fail(<<"Connection error to Whisper server: ">> \o Str(b.exc.msg))
       ELSE IF IsInstance(b.exc, "Exception")
       THEN fail(<<"Transcription failed: ">> \o Str(b.exc.msg))
       ELSE b

transcribe_with_whisper_remote(audio_path, model_size, language, e) ==
    whisper_remote_except(whisper_remote_try(audio_path, model_size, language, e))

\* the body of the try block of transcribe_with_whisper_remote_url: the peer
\* fetches the audio itself, no file is read
whisper_remote_url_try(audio_url, model_size, language, e) ==
    IF ~Truthy(settings.whisper_remote_url)
    THEN Return3(Fail3(<<"Whisper remote URL not configured">>), 0)
    ELSE IF e.exc # NoExc
    THEN Raise3(e.exc, 1)
    ELSE IF ~Is2xx(e.status_code)
    THEN Raise3(Exc("HTTPStatusError", <<e.status_code>> \o <<" - ">> \o e.body), 1)
    ELSE IF ~e.is_dict
    THEN Raise3(Exc("AttributeError", <<"'list' object has no attribute 'get'">>), 1)
    ELSE IF e.success # "true"
    THEN Return3(Fail3(IF e.has_error THEN e.error ELSE <<"Transcription failed">>), 1)
    ELSE IF GetText(e.reply) = None
    THEN Raise3(NoneStrip, 1)
    ELSE LET text == strip(GetText(e.reply))
         IN IF text = << >>
            THEN Return3(Fail3(<<"Transcription resulted in empty text">>), 1)
            ELSE Return3(Ok3(text), 1)

transcribe_with_whisper_remote_url(audio_url, model_size, language, e) ==
    whisper_remote_except(whisper_remote_url_try(audio_url, model_size, language, e))

\* the body of the try block of transcribe_with_whisper_api; e is
\* [file_exists, too_large, installed, exc, text]
whisper_api_try(audio_path, language, e) ==
    IF ~Truthy(settings.openai_api_key)
    THEN Return3(Fail3(<<"OpenAI API key not configured">>), 0)
    ELSE IF ~e.file_exists
    THEN Return3(Fail3(<<"Audio file not found">>), 0)
    ELSE IF e.too_large
    THEN Return3(Fail3(<<"File too large for Whisper API (max 25MB)">>), 0)
    ELSE IF ~e.installed
    THEN Return3(Fail3(<<"OpenAI package not installed">>), 0)
    ELSE IF e.exc # NoExc
    THEN Raise3(e.exc, 1)
    ELSE LET text == IF Truthy(e.text) THEN strip(e.text) ELSE << >>
         IN IF text = << >>
            THEN Return3(Fail3(<<"Transcription resulted in empty text">>), 1)
            ELSE Return3(Ok3(text), 1)

transcribe_with_whisper_api(audio_path, language, e) ==
    CatchAll3(whisper_api_try(audio_path, language, e))

\* ' '.join(parts)
RECURSIVE join(_)
join(parts) ==
    IF parts = << >> THEN << >>
    ELSE IF Len(parts) = 1 THEN parts[1]
    ELSE parts[1] \o <<" ">> \o join(Tail(parts))

\* the first alternative's transcript of every result that has alternatives
RECURSIVE transcripts(_)
transcripts(results) ==
    IF results = << >> THEN << >>
    ELSE (IF Head(results) # << >> THEN <<Head(results)[1]>> ELSE << >>)
         \o transcripts(Tail(results))

\* the body of the try block of transcribe_with_google_stt; e is
\* [creds_exist, file_exists, installed, exc, results], results a sequence
\* of results, each the sequence of its alternatives' transcripts
google_stt_try(audio_path, language, e) ==
    IF ~Truthy(settings.google_application_credentials) \/ ~e.creds_exist
    THEN Return3(Fail3(<<"Google Cloud credentials not configured">>), 0)
    ELSE IF ~e.file_exists
    THEN Return3(Fail3(<<"Audio file not found">>), 0)
    ELSE IF ~e.installed
    THEN Return3(Fail3(<<"Google Cloud Speech package not installed">>), 0)
    ELSE IF e.exc # NoExc
    THEN Raise3(e.exc, 1)
    ELSE LET text == strip(join(transcripts(e.results)))
         IN IF text = << >>
            THEN Return3(Fail3(<<"Transcription resulted in empty text">>), 1)
            ELSE Return3(Ok3(text), 1)

transcribe_with_google_stt(audio_path, language, e) ==
    CatchAll3(google_stt_try(audio_path, language, e))

\* google_stt.format_language_code
format_language_code(lang) ==
    CASE lang = <<"en">> -> <<"en-US">>
      [] lang = <<"tr">> -> <<"tr-TR">>
      [] lang = <<"de">> -> <<"de-DE">>
      [] lang = <<"fr">> -> <<"fr-FR">>
      [] lang = <<"es">> -> <<"es-ES">>
      [] lang = <<"it">> -> <<"it-IT">>
      [] lang = <<"ja">> -> <<"ja-JP">>
      [] lang = <<"zh">> -> <<"zh-CN">>
      [] OTHER -> lang

\* TRANSCRIPTION_MODELS; size is None where the entry has no 'size'
TRANSCRIPTION_MODELS ==
    (<<"whisper-tiny">> :> [backend |-> "whisper_local", size |-> <<"tiny">>]) @@
    (<<"whisper-base">> :> [backend |-> "whisper_local", size |-> <<"base">>]) @@
    (<<"whisper-small">> :> [backend |-> "whisper_local", size |-> <<"small">>]) @@
    (<<"whisper-medium">> :> [backend |-> "whisper_local", size |-> <<"medium">>]) @@
    (<<"whisper-large">> :> [backend |-> "whisper_local", size |-> <<"large">>]) @@
    (<<"whisper-api">> :> [backend |-> "whisper_api", size |-> None]) @@
    (<<"google-stt">> :> [backend |-> "google_stt", size |-> None]) @@
    (<<"whisper-remote-tiny">> :> [backend |-> "whisper_remote", size |-> <<"tiny">>]) @@
    (<<"whisper-remote-base">> :> [backend |-> "whisper_remote", size |-> <<"base">>]) @@
    (<<"whisper-remote-small">> :> [backend |-> "whisper_remote", size |-> <<"small">>]) @@
    (<<"whisper-remote-medium">> :> [backend |-> "whisper_remote", size |-> <<"medium">>]) @@
    (<<"whisper-remote-large">> :> [backend |-> "whisper_remote", size |-> <<"large">>])

\* model_config.get('size', 'base')
GetSize(model_config) == IF model_config.size = None THEN <<"base">> ELSE model_config.size

\* what the dispatcher does when the id is not in TRANSCRIPTION_MODELS
transcribe_unregisteredFallsBack(audio_path, model, language, w) ==
    Returning(Invoke("transcribe_with_whisper_local", <<audio_path, <<"base">>, language>>,
                     transcribe_with_whisper_local(audio_path, <<"base">>, language,
                                                   w.local)))

transcribe_unregistered(audio_path, model, language, w) ==
    Direct(Return3(Fail3(<<"Unknown model: ">> \o model), 0))

\* transcription_service.transcribe; w is what the four backends would do.
\* The result is the adapter invocations made and the outcome of the call.
transcribe(audio_path, model, language, w) ==
    IF model \notin DOMAIN TRANSCRIPTION_MODELS
    THEN transcribe_unregistered(audio_path, model, language, w)
    ELSE LET model_config == TRANSCRIPTION_MODELS[model]
             backend == model_config.backend
         IN CASE backend = "whisper_local" ->
                   Returning(Invoke("transcribe_with_whisper_local",
                                    <<audio_path, GetSize(model_config), language>>,
                                    transcribe_with_whisper_local(
                                        audio_path, GetSize(model_config), language, w.local)))
              [] backend = "whisper_remote" ->
                   IF ~Truthy(settings.whisper_remote_url)
                   THEN Direct(Return3(Fail3(
                            <<"Whisper remote URL not configured. Set WHISPER_REMOTE_URL in .env">>), 0))
                   ELSE Returning(Invoke("transcribe_with_whisper_remote",
                                         <<audio_path, GetSize(model_config), language>>,
                                         transcribe_with_whisper_remote(
                                             audio_path, GetSize(model_config), language, w.remote)))
              [] backend = "whisper_api" ->
                   Returning(Invoke("transcribe_with_whisper_api",
                                    <<audio_path, language>>,
                                    transcribe_with_whisper_api(audio_path, language, w.api)))
              [] backend = "google_stt" ->
                   Returning(Invoke("transcribe_with_google_stt",
                                    <<audio_path, format_language_code(language)>>,
                                    transcribe_with_google_stt(
                                        audio_path, format_language_code(language), w.google)))
              [] OTHER ->
                   Direct(Return3(Fail3(<<"Unknown backend: ", backend>>), 0))

---------------------------------------------------------------------------
(* transcribe_parallel *)

\* position of the last x in s, 0 if there is none: s.rfind(x) + 1
RECURSIVE rfind(_, _)
rfind(s, x) ==
    IF s = << >> THEN 0
    ELSE IF s[Len(s)] = x THEN Len(s)
    ELSE rfind(SubSeq(s, 1, Len(s) - 1), x)

\* the final component of a path
name(path) == SubSeq(path, rfind(path, "/") + 1, Len(path))

\* pathlib's Path(path).suffix: from the last dot of the name, when that dot
\* is neither its first nor its last character
suffix(path) ==
    LET n == name(path)
        i == rfind(n, ".")
    IN IF 1 < i /\ i < Len(n) THEN SubSeq(n, i, Len(n)) ELSE << >>

\* the list of line 99
AudioExts ==
    {<<".", "mp3">>, <<".", "wav">>, <<".", "m4a">>, <<".", "flac">>, <<".", "ogg">>}

\* ext in [...] of line 99, ext = Path(path).suffix.lower()
is_audio(path) == lower(suffix(path)) \in AudioExts

\* the loop of lines 97-102: the lists audio_files and video_files after
\* the paths from position i on are appended
RECURSIVE partition(_, _, _, _)
partition(audio_paths, i, audio_files, video_files) ==
    IF i > Len(audio_paths)
    THEN [audio_files |-> audio_files, video_files |-> video_files]
    ELSE IF is_audio(audio_paths[i])
    THEN partition(audio_paths, i + 1, Append(audio_files, audio_paths[i]), video_files)
    ELSE partition(audio_paths, i + 1, audio_files, Append(video_files, audio_paths[i]))

\* sorted_paths of lines 93-107
sorted_pathsVideoFirst(audio_paths, prioritize_audio) ==
    IF prioritize_audio
    THEN LET p == partition(audio_paths, 1, << >>, << >>)
         IN p.video_files \o p.audio_files
    ELSE audio_paths

sorted_paths(audio_paths, prioritize_audio) ==
    IF prioritize_audio
    THEN LET p == partition(audio_paths, 1, << >>, << >>)
         IN p.audio_files \o p.video_files
    ELSE audio_paths

\* the dict process_file returns for a path whose transcribe call ended as out
process_file(path, out) ==
    [path |-> path, success |-> out.ret.success, text |-> out.ret.text,
     error |-> out.ret.error]

\* asyncio.gather(*tasks) once every task is done: the tasks' results in the
\* order of the tasks
RECURSIVE gatherUntilFailure(_)
gatherUntilFailure(tasks) ==
    IF tasks = << >> \/ ~Head(tasks).out.ret.success THEN << >>
    ELSE <<process_file(Head(tasks).path, Head(tasks).out)>>
         \o gatherUntilFailure(Tail(tasks))

gather(tasks) == [i \in 1..Len(tasks) |-> process_file(tasks[i].path, tasks[i].out)]

\* a call that is suspended at `await client.post(...)`: only the remote
\* adapter awaits its backend, the other adapters call theirs synchronously
Suspends(t) ==
    /\ Len(t.invoked) = 1
    /\ t.invoked[1].adapter = "transcribe_with_whisper_remote"
    /\ t.out.sent > 0

---------------------------------------------------------------------------
(* benchmark_service *)

\* s.split(sep) for a one-token separator
RECURSIVE split(_, _)
split(s, sep) ==
    LET i == CHOOSE k \in 1..(Len(s) + 1) :
                 /\ k = Len(s) + 1 \/ s[k] = sep
                 /\ \A j \in 1..(k - 1) : s[j] # sep
    IN IF i = Len(s) + 1 THEN <<s>>
       ELSE <<SubSeq(s, 1, i - 1)>> \o split(SubSeq(s, i + 1, Len(s)), sep)

\* sep.join(parts) for a one-token separator
RECURSIVE joinWith(_, _)
joinWith(parts, sep) ==
    IF parts = << >> THEN << >>
    ELSE IF Len(parts) = 1 THEN parts[1]
    ELSE parts[1] \o <<sep>> \o joinWith(Tail(parts), sep)

\* line.startswith('<marker>:')
startswith(line, marker) == Len(line) >= 2 /\ line[1] = marker /\ line[2] = ":"

\* float(s): the number, or None for the ValueError
floatKeepsText(s) == s

float(s) ==
    IF Len(s) # 1 THEN None
    ELSE CASE s[1] = "8" -> <<"8.0">>
           [] s[1] = "6" -> <<"6.0">>
           [] s[1] = "8.5" -> <<"8.5">>
           [] s[1] = "0" -> <<"0.0">>
           [] s[1] = "10" -> <<"10.0">>
           [] s[1] = "11" -> <<"11.0">>
           [] s[1] = "nan" -> <<"nan">>
           [] OTHER -> None

\* one pass of the loop of lines 72-92 over the lines from position i on;
\* acc is [result, reasoning_lines, in_reasoning]
RECURSIVE parse_lines(_, _, _)
parse_lines(lines, i, acc) ==
    IF i > Len(lines) THEN acc
    ELSE LET line == strip(lines[i])
             parts == split(line, ":")
             value == strip(parts[2])
         IN parse_lines(lines, i + 1,
              IF startswith(line, "SCORE_A")
              THEN (IF float(value) # None
                    THEN [acc EXCEPT !.result.score_a = float(value)] ELSE acc)
              ELSE IF startswith(line, "SCORE_B")
              THEN (IF float(value) # None
                    THEN [acc EXCEPT !.result.score_b = float(value)] ELSE acc)
              ELSE IF startswith(line, "WINNER")
              THEN [acc EXCEPT !.result.winner = value]
              ELSE IF startswith(line, "REASONING")
              THEN LET reasoning_text == strip(joinWith(Tail(parts), ":"))
                   IN [acc EXCEPT !.in_reasoning = TRUE,
                                  !.reasoning_lines =
                                      IF reasoning_text # << >>
                                      THEN Append(@, reasoning_text) ELSE @]
              ELSE IF acc.in_reasoning
              THEN [acc EXCEPT !.reasoning_lines = Append(@, line)]
              ELSE acc)

\* parse_judge_response: the dict, or the AttributeError of None.strip()
parse_judge_response(response) ==
    IF response = None
    THEN [raised |-> TRUE, exc |-> NoneStrip,
          value |-> [score_a |-> None, score_b |-> None, winner |-> None,
                     reasoning |-> None]]
    ELSE LET acc == parse_lines(split(strip(response), "\n"), 1,
                        [result |-> [score_a |-> None, score_b |-> None,
                                     winner |-> None, reasoning |-> None],
                         reasoning_lines |-> << >>, in_reasoning |-> FALSE])
         IN [raised |-> FALSE, exc |-> NoExc,
             value |-> [acc.result EXCEPT !.reasoning =
                           IF acc.reasoning_lines # << >>
                           THEN joinWith(acc.reasoning_lines, " ") ELSE None]]

\* the length each output is cut to in the judge prompt
JudgeLimit == 3000

\* s[:n]
TakeAll(s, n) == s

Take(s, n) == SubSeq(s, 1, IF Len(s) < n THEN Len(s) ELSE n)

NotSubscriptable == Exc("TypeError", <<"'NoneType' object is not subscriptable">>)

\* TRANSCRIPTION_JUDGE_PROMPT.format(...); a token stands for the fixed text
\* between two fields
TRANSCRIPTION_JUDGE_PROMPT(model_a, model_b, output_a, output_b) ==
    <<"Compare these two transcriptions of the same audio:", "\n", "\n",
      "**Transcription A (">> \o model_a \o <<"):**", "\n">> \o output_a
    \o <<"\n", "\n", "**Transcription B (">> \o model_b \o <<"):**", "\n">> \o output_b
    \o <<"\n", "\n", "Evaluate each transcription on these criteria (1-10 scale): ...",
         "\n", "\n", "Provide your response in this exact format:", "\n",
         "SCORE_A", ":", " ", "[number]", "\n", "SCORE_B", ":", " ", "[number]", "\n",
         "WINNER", ":", " ", "[A or B or TIE]", "\n",
         "REASONING", ":", " ", "[Your detailed analysis]">>

\* LLM_JUDGE_PROMPT.format(...)
LLM_JUDGE_PROMPT(prompt_type, model_a, model_b, output_a, output_b) ==
    <<"Compare these two LLM outputs generated from the same input:", "\n", "\n",
      "**Task:** ">> \o prompt_type
    \o <<"\n", "\n", "**Output A (">> \o model_a \o <<"):**", "\n">> \o output_a
    \o <<"\n", "\n", "**Output B (">> \o model_b \o <<"):**", "\n">> \o output_b
    \o <<"\n", "\n", "Evaluate each output on these criteria (1-10 scale): ...",
         "\n", "\n", "Provide your response in this exact format:", "\n",
         "SCORE_A", ":", " ", "[number]", "\n", "SCORE_B", ":", " ", "[number]", "\n",
         "WINNER", ":", " ", "[A or B or TIE]", "\n",
         "REASONING", ":", " ", "[Your detailed analysis]">>

\* the tuple (success, results_dict, error_message) a benchmark returns;
\* is_none says that results_dict is None
NoResults ==
    [is_none |-> TRUE, output_a |-> None, output_b |-> None, score_a |-> None,
     score_b |-> None, judge_reasoning |-> None]

Results(output_a, output_b, score_a, score_b, judge_reasoning) ==
    [is_none |-> FALSE, output_a |-> output_a, output_b |-> output_b,
     score_a |-> score_a, score_b |-> score_b, judge_reasoning |-> judge_reasoning]

BenchRet(ok, results, error) == [ok |-> ok, results |-> results, error |-> error]

\* success, text, error of a call's return value: the comparison drops the
\* usage of generate
Triple(ret) == [success |-> ret.success, text |-> ret.text, error |-> ret.error]

\* except Exception as e: return False, None, str(e)
bench_except(e) == BenchRet(FALSE, NoResults, Str(e.msg))

\* lines 117-120 / 193-196: the return when a model call failed
model_failureBlamesA(model_a, a, model_b, b) ==
    BenchRet(FALSE, NoResults,
             <<"Model A (">> \o model_a \o <<") failed: ">> \o Str(a.error))

model_failure(model_a, a, model_b, b) ==
    IF ~a.success
    THEN BenchRet(FALSE, NoResults,
                  <<"Model A (">> \o model_a \o <<") failed: ">> \o Str(a.error))
    ELSE BenchRet(FALSE, NoResults,
                  <<"Model B (">> \o model_b \o <<") failed: ">> \o Str(b.error))

\* lines 136-144 / 213-220: the return when the judge call failed
judge_failureFailsAll(a, b, j) ==
    BenchRet(FALSE, NoResults, <<"Judge failed: ">> \o Str(j.error))

judge_failure(a, b, j) ==
    BenchRet(TRUE,
             Results(a.text, b.text, None, None, <<"Judge failed: ">> \o Str(j.error)),
             None)

\* lines 146-155 / 222-231: the return after a judge call that succeeded;
\* an exception of parse_judge_response reaches the except clause
judged(a, b, j) ==
    LET scores == parse_judge_response(j.text)
    IN IF scores.raised
       THEN bench_except(scores.exc)
       ELSE BenchRet(TRUE,
                     Results(a.text, b.text, scores.value.score_a,
                             scores.value.score_b, scores.value.reasoning),
                     None)

\* The comparison in flight is a record st: pc is where it stands, log the
\* calls it has started and seen return, invoked the adapter invocations
\* its calls made.
Finish(st, ret) == [st EXCEPT !.pc = "returned", !.result = ret]

\* model A's call has returned (its outcome is in st.a): line 115 / 187
\* calls model B whatever the outcome
after_model_aReturnsOnFailure(st) ==
    IF st.a.success
    THEN [st EXCEPT !.pc = "in_b", !.log = Append(@, "b_start")]
    ELSE Finish(st, model_failure(st.model_a, st.a, st.model_b, st.b))

after_model_a(st) == [st EXCEPT !.pc = "in_b", !.log = Append(@, "b_start")]

\* model B's call has returned: lines 117-134 / 193-211, up to the await of
\* the judge call
after_model_b(st) ==
    IF ~st.a.success \/ ~st.b.success
    THEN Finish(st, model_failure(st.model_a, st.a, st.model_b, st.b))
    ELSE IF st.a.text = None \/ st.b.text = None
    THEN Finish(st, bench_except(NotSubscriptable))
    ELSE [st EXCEPT !.pc = "in_judge",
                    !.log = Append(@, "j_start"),
                    !.judge_prompt =
                        IF st.kind = "llm"
                        THEN LLM_JUDGE_PROMPT(st.prompt_type, st.model_a, st.model_b,
                                              Take(st.a.text, JudgeLimit),
                                              Take(st.b.text, JudgeLimit))
                        ELSE TRANSCRIPTION_JUDGE_PROMPT(st.model_a, st.model_b,
                                                        Take(st.a.text, JudgeLimit),
                                                        Take(st.b.text, JudgeLimit))]

\* the judge call has returned: lines 136-155 / 213-231
after_judge(st) ==
    IF ~st.j.success
    THEN Finish(st, judge_failure(st.a, st.b, st.j))
    ELSE Finish(st, judged(st.a, st.b, st.j))

---------------------------------------------------------------------------
(* What the world outside the process can do: the inputs of the calls *)

\* exceptions a provider SDK or HTTP client raises
ProviderExcs ==
    {Exc("Exception", <<"rate limit exceeded">>),
     Exc("ConnectError", <<"connection refused">>),
     Exc("ValueError", <<"invalid JSON">>)}

Texts == {<< >>, <<"Meeting summary.">>}

OpenAIReplies ==
    {r \in [installed : BOOLEAN, exc : {NoExc} \cup ProviderExcs,
            choices : {<< >>} \cup {<<c>> : c \in {None} \cup Texts},
            usage : {None, <<"12", "34">>}] :
        r.exc = NoExc \/ (r.choices = << >> /\ r.usage = None)}

GeminiReplies ==
    {r \in [installed : BOOLEAN, exc : {NoExc} \cup ProviderExcs,
            text : {None} \cup Texts] :
        r.exc = NoExc \/ r.text = None}

OllamaReplies ==
    {r \in [exc : {NoExc} \cup ProviderExcs, status_code : {"200", "500"},
            has_response : BOOLEAN, response : Texts,
            usage : {<<"12", "34">>}] :
        /\ r.exc = NoExc \/ (r.status_code = "200" /\ ~r.has_response)
        /\ r.has_response \/ r.response = << >>}

DefaultOpenAI == [installed |-> TRUE, exc |-> NoExc, choices |-> << >>, usage |-> None]
DefaultGemini == [installed |-> TRUE, exc |-> NoExc, text |-> None]
DefaultOllama ==
    [exc |-> NoExc, status_code |-> "200", has_response |-> FALSE,
     response |-> << >>, usage |-> <<"12", "34">>]

\* each world varies the answer of one provider: a call reaches one adapter
LLMWorlds ==
    {[openai |-> r, gemini |-> DefaultGemini, ollama |-> DefaultOllama] : r \in OpenAIReplies}
    \cup {[openai |-> DefaultOpenAI, gemini |-> r, ollama |-> DefaultOllama] : r \in GeminiReplies}
    \cup {[openai |-> DefaultOpenAI, gemini |-> DefaultGemini, ollama |-> r] : r \in OllamaReplies}

\* the ids generate is called with: registered ones of each backend and
\* unregistered ones
LLMModelIds ==
    {<<"gpt-4">>, <<"gemini-pro">>, <<"llama2">>, <<"codellama">>,
     <<"phi">>, <<"whisper-base">>, << >>}

\* a transcription reply: result['text'] may be absent, null or a string
Replies ==
    {[has_text |-> FALSE, text |-> None]}
    \cup {[has_text |-> TRUE, text |-> t] :
            t \in {None, << >>, <<" ">>, <<" ", "hello world", "\n">>}}

DefaultReply == [has_text |-> FALSE, text |-> None]
GoodReply == [has_text |-> TRUE, text |-> <<" ", "hello world", "\n">>]

LoadExcs ==
    {Exc("RuntimeError", <<"CUDA", " out of memory">>),
     Exc("RuntimeError", <<"checksum does not match">>),
     Exc("OSError", <<"No space left on device">>)}

\* a second load happens only after a first one failed, and the transcription
\* is varied with a machine whose first load works
LocalEnvs ==
    {e \in [installed : BOOLEAN, cuda_available : BOOLEAN,
            load1 : {NoExc} \cup LoadExcs,
            load2 : {NoExc, Exc("RuntimeError", <<"not enough memory">>)},
            disk_cache : BOOLEAN, file_exists : BOOLEAN,
            exc : {NoExc, Exc("RuntimeError", <<"Failed to load audio">>)},
            reply : Replies] :
        /\ e.exc = NoExc \/ e.reply = DefaultReply
        /\ e.load1 # NoExc \/ (e.load2 = NoExc /\ ~e.disk_cache)
        /\ (e.installed /\ e.load1 = NoExc /\ e.file_exists)
           \/ (e.exc = NoExc /\ e.reply \in {DefaultReply, GoodReply})}

RemoteEnvs ==
    {e \in [file_exists : BOOLEAN, exc : {NoExc} \cup ProviderExcs,
            status_code : {"200", "500"}, body : {<<"{\"detail\": \"boom\"}">>},
            is_dict : BOOLEAN, success : {"absent", "null", "false", "true"},
            has_error : BOOLEAN, error : {None, <<"boom">>}, reply : Replies] :
        /\ e.exc = NoExc
           \/ (e.status_code = "200" /\ e.is_dict /\ e.success = "absent")
        /\ (e.status_code = "200" /\ e.is_dict) \/ e.success = "absent"
        /\ e.success # "absent" \/ (~e.has_error /\ e.reply = DefaultReply)
        /\ e.has_error \/ e.error = None}

ApiEnvs ==
    {e \in [file_exists : BOOLEAN, too_large : BOOLEAN, installed : BOOLEAN,
            exc : {NoExc} \cup ProviderExcs,
            text : {None, << >>, <<" ">>, <<" ", "hello world", "\n">>}] :
        e.exc = NoExc \/ e.text = None}

GoogleEnvs ==
    {e \in [creds_exist : BOOLEAN, file_exists : BOOLEAN, installed : BOOLEAN,
            exc : {NoExc} \cup ProviderExcs,
            results : {<< >>, << << >> >>, << <<<<" ">>>> >>,
                       << <<<<"hello">>, <<"hullo">>>>, << >>, <<<<"world">>>> >>}] :
        e.exc = NoExc \/ e.results = << >>}

DefaultLocal ==
    [installed |-> TRUE, cuda_available |-> FALSE, load1 |-> NoExc, load2 |-> NoExc,
     disk_cache |-> FALSE, file_exists |-> TRUE, exc |-> NoExc, reply |-> DefaultReply]
DefaultRemote ==
    [file_exists |-> TRUE, exc |-> NoExc, status_code |-> "200",
     body |-> <<"{\"detail\": \"boom\"}">>, is_dict |-> TRUE, success |-> "absent",
     has_error |-> FALSE, error |-> None, reply |-> DefaultReply]
DefaultApi ==
    [file_exists |-> TRUE, too_large |-> FALSE, installed |-> TRUE, exc |-> NoExc,
     text |-> None]
DefaultGoogle ==
    [creds_exist |-> TRUE, file_exists |-> TRUE, installed |-> TRUE, exc |-> NoExc,
     results |-> << >>]

World(l, r, a, g) == [local |-> l, remote |-> r, api |-> a, google |-> g]

\* each world varies what one backend does: a call reaches one adapter
TrWorlds ==
    {World(e, DefaultRemote, DefaultApi, DefaultGoogle) : e \in LocalEnvs}
    \cup {World(DefaultLocal, e, DefaultApi, DefaultGoogle) : e \in RemoteEnvs}
    \cup {World(DefaultLocal, DefaultRemote, e, DefaultGoogle) : e \in ApiEnvs}
    \cup {World(DefaultLocal, DefaultRemote, DefaultApi, e) : e \in GoogleEnvs}

TrModelIds ==
    {<<"whisper-tiny">>, <<"whisper-base">>, <<"whisper-api">>, <<"google-stt">>,
     <<"whisper-remote-small">>, <<"gpt-4">>, << >>}

Languages == {<<"en">>, <<"pt">>}

AudioPath == <<"a", ".", "mp3">>

\* configurations the process can start with
Keys == {None, <<"secret">>}

AllSettings ==
    [openai_api_key : Keys, google_gemini_api_key : Keys,
     google_application_credentials : {None, <<"/etc/creds.json">>},
     ollama_host : {<<"http://localhost:11434">>},
     whisper_model_size : {<<"base">>},
     whisper_device : {"cpu", "gpu", "cuda"},
     whisper_remote_url : {None, <<"http://100.64.0.1:8001">>}]

NoCall == [fn |-> "none", model |-> << >>, language |-> << >>,
           invoked |-> << >>, out |-> Return4(NoRet4, 0)]

NoPar == [pc |-> "none"]
NoBench == [pc |-> "none"]
NoRequest == [pc |-> "none"]
NoServer == [pc |-> "none"]

---------------------------------------------------------------------------
(* The dispatchers, called one call after another *)

\* the process starts with its credentials and remote URL all set or all
\* unset (each adapter reads only its own), on any device
StartSettings ==
    {c \in AllSettings :
        \/ /\ c.openai_api_key = None /\ c.google_gemini_api_key = None
           /\ c.google_application_credentials = None /\ c.whisper_remote_url = None
        \/ /\ c.openai_api_key # None /\ c.google_gemini_api_key # None
           /\ c.google_application_credentials # None /\ c.whisper_remote_url # None}

Init ==
    /\ settings \in StartSettings
    /\ _model = None
    /\ _model_size = None
    /\ call = NoCall
    /\ par = NoPar
    /\ bench = NoBench
    /\ benchmark_results = << >>
    /\ request = NoRequest
    /\ _model_cache = << >>
    /\ temp_files = {}
    /\ server = NoServer
    /\ cuda_available = FALSE

\* one call of generate
Generate ==
    \E model \in LLMModelIds, w \in LLMWorlds :
        LET g == generate(model, w)
        IN /\ call.fn = "none"
           /\ call' = [fn |-> "generate", model |-> model, language |-> << >>,
                       invoked |-> g.invoked, out |-> g.out]
           /\ UNCHANGED <<settings, _model, _model_size, par, bench, benchmark_results, request, server_vars>>

\* one call of transcribe
Transcribe ==
    \E model \in TrModelIds, language \in Languages, w \in TrWorlds :
        LET t == transcribe(AudioPath, model, language, w)
        IN /\ call.fn = "none"
           /\ call' = [fn |-> "transcribe", model |-> model, language |-> language,
                       invoked |-> t.invoked, out |-> t.out]
           /\ _model' = t.out.model
           /\ _model_size' = t.out.model_size
           /\ UNCHANGED <<settings, par, bench, benchmark_results, request, server_vars>>

\* the caller has taken the result; the next call can be made
CallDone ==
    /\ call.fn # "none"
    /\ call' = NoCall
    /\ UNCHANGED <<settings, _model, _model_size, par, bench, benchmark_results, request, server_vars>>

Next == Generate \/ Transcribe \/ CallDone

Spec == Init /\ [][Next]_vars

---------------------------------------------------------------------------
(* Properties of the adapters and dispatchers *)

\* the outcomes of the adapter calls and of the dispatcher call just made
Outcomes == {call.invoked[i].out : i \in 1..Len(call.invoked)} \cup {call.out}

\* C1: every generate call and every LLM adapter call returns a tuple with
\* success=false => text None and error set, and success=true => text set
\* and error None, whatever the provider answered.
C1_GenerationResultShape ==
    call.fn = "generate" =>
        \A o \in Outcomes :
            ~o.raised =>
                /\ ~o.ret.success => (o.ret.text = None /\ o.ret.error # None)
                /\ o.ret.success => (o.ret.text # None /\ o.ret.error = None)

\* C2: every transcribe call and every transcription adapter call returns a
\* triple with success=false => text None and error set, and success=true =>
\* text a non-empty string and error None, whatever the backend or peer
\* answered.
C2_TranscriptionResultShape ==
    call.fn = "transcribe" =>
        \A o \in Outcomes :
            ~o.raised =>
                /\ ~o.ret.success => (o.ret.text = None /\ o.ret.error # None)
                /\ o.ret.success => (Truthy(o.ret.text) /\ o.ret.error = None)

\* C3: no adapter call raises: an exception thrown inside an adapter never
\* leaves it, and the call returns ok=false with an error string.
C3_AdaptersNeverRaise ==
    \A i \in 1..Len(call.invoked) :
        LET o == call.invoked[i].out
        IN /\ ~o.raised
           /\ o.exc # NoExc => (~o.ret.success /\ o.ret.error # None)

\* an adapter of each family caught an exception of its provider or loader
C3_Witness ==
    /\ call.fn = "transcribe"
    /\ Len(call.invoked) = 1
    /\ call.invoked[1].adapter = "transcribe_with_whisper_local"
    /\ call.invoked[1].out.exc.type = "RuntimeError"
    /\ ~call.out.raised
    /\ ~call.out.ret.success

\* the adapter generate calls for a backend
AdapterOf(backend) ==
    CASE backend = "openai" -> "generate_with_openai"
      [] backend = "gemini" -> "generate_with_gemini"
      [] backend = "ollama" -> "generate_with_ollama"

\* C4: generate invokes exactly one adapter and returns its result unchanged:
\* the registered backend's adapter with the registered model name for an id
\* in LLM_MODELS, the Ollama adapter with the id itself for any other id.
C4_GenerateDispatch ==
    call.fn = "generate" =>
        /\ Len(call.invoked) = 1
        /\ call.out = call.invoked[1].out
        /\ ~call.out.raised
        /\ IF call.model \in DOMAIN LLM_MODELS
           THEN /\ call.invoked[1].adapter = AdapterOf(LLM_MODELS[call.model].backend)
                /\ call.invoked[1].args = <<LLM_MODELS[call.model].model>>
           ELSE /\ call.invoked[1].adapter = "generate_with_ollama"
                /\ call.invoked[1].args = <<call.model>>

\* an unregistered id was answered by Ollama
C4_Witness ==
    /\ call.fn = "generate"
    /\ call.model = <<"phi">>
    /\ call.invoked[1].adapter = "generate_with_ollama"
    /\ call.out.ret.success
    /\ call.out.ret.text = <<"Meeting summary.">>

---------------------------------------------------------------------------
(* transcribe_parallel on the event loop *)

MaxPaths == 3

PathChoices ==
    {<<"v", ".", "mp4">>, <<"a", ".", "mp3">>, <<"b", ".", "wav">>,
     <<"dir", "/", "C", ".", "MP3">>, <<".", "mp3">>}

PathLists == UNION {[1..n -> PathChoices] : n \in 0..MaxPaths}

ParModelIds == {<<"whisper-base">>, <<"whisper-remote-small">>}

\* what the backend does for one item: it works, the file is missing, or
\* the backend throws
ParWorlds ==
    {World([DefaultLocal EXCEPT !.reply = GoodReply],
           [DefaultRemote EXCEPT !.success = "true", !.reply = GoodReply],
           DefaultApi, DefaultGoogle),
     World([DefaultLocal EXCEPT !.file_exists = FALSE],
           [DefaultRemote EXCEPT !.file_exists = FALSE],
           DefaultApi, DefaultGoogle),
     World([DefaultLocal EXCEPT !.exc = Exc("RuntimeError", <<"Failed to load audio">>)],
           [DefaultRemote EXCEPT !.exc = Exc("ConnectError", <<"connection refused">>)],
           DefaultApi, DefaultGoogle)}

ConfiguredCpu ==
    CHOOSE c \in StartSettings : c.openai_api_key # None /\ c.whisper_device = "cpu"

IdlePar ==
    [pc |-> "idle", audio_paths |-> << >>, model |-> << >>, language |-> << >>,
     prioritize_audio |-> FALSE, tasks |-> << >>, results |-> << >>]

InitParallel ==
    /\ settings = ConfiguredCpu
    /\ _model = None
    /\ _model_size = None
    /\ call = NoCall
    /\ par = IdlePar
    /\ bench = NoBench
    /\ benchmark_results = << >>
    /\ request = NoRequest
    /\ _model_cache = << >>
    /\ temp_files = {}
    /\ server = NoServer
    /\ cuda_available = FALSE

\* transcribe_parallel is called: lines 93-121 up to the await of gather,
\* which creates one task per path of sorted_paths
ParCall ==
    \E audio_paths \in PathLists, model \in ParModelIds, prioritize_audio \in BOOLEAN :
        LET sp == sorted_paths(audio_paths, prioritize_audio)
        IN /\ par.pc = "idle"
           /\ par' = [pc |-> "gather", audio_paths |-> audio_paths, model |-> model,
                      language |-> <<"en">>, prioritize_audio |-> prioritize_audio,
                      tasks |-> [i \in 1..Len(sp) |->
                                    [path |-> sp[i], pc |-> "created",
                                     out |-> Return3(NoRet3, 0)]],
                      results |-> << >>]
           /\ UNCHANGED <<settings, _model, _model_size, call, bench, benchmark_results, request, server_vars>>

\* the event loop runs the next task it has not yet run, up to the task's
\* first suspension or, when the call never suspends, to its end
TaskRun(i) ==
    \E w \in ParWorlds :
        LET t == transcribe(par.tasks[i].path, par.model, par.language, w)
        IN /\ par.pc = "gather"
           /\ par.tasks[i].pc = "created"
           /\ \A j \in 1..(i - 1) : par.tasks[j].pc # "created"
           /\ par' = [par EXCEPT !.tasks[i].pc = IF Suspends(t) THEN "awaiting" ELSE "done",
                                 !.tasks[i].out = t.out]
           /\ _model' = t.out.model
           /\ _model_size' = t.out.model_size
           /\ UNCHANGED <<settings, call, bench, benchmark_results, request, server_vars>>

\* the peer's answer arrives and the suspended call runs to its end; answers
\* are polled once every task has run its first step
TaskResume(i) ==
    /\ par.pc = "gather"
    /\ par.tasks[i].pc = "awaiting"
    /\ \A j \in 1..Len(par.tasks) : par.tasks[j].pc # "created"
    /\ par' = [par EXCEPT !.tasks[i].pc = "done"]
    /\ UNCHANGED <<settings, _model, _model_size, call, bench, benchmark_results, request, server_vars>>

\* gather is complete: lines 121-123; an exception of a task is raised
ParReturn ==
    /\ par.pc = "gather"
    /\ \A j \in 1..Len(par.tasks) : par.tasks[j].pc = "done"
    /\ par' = IF \E j \in 1..Len(par.tasks) : par.tasks[j].out.raised
              THEN [par EXCEPT !.pc = "raised"]
              ELSE [par EXCEPT !.pc = "returned", !.results = gather(par.tasks)]
    /\ UNCHANGED <<settings, _model, _model_size, call, bench, benchmark_results, request, server_vars>>

RunTask == \E i \in 1..Len(par.tasks) : TaskRun(i)

ResumeTask == \E i \in 1..Len(par.tasks) : TaskResume(i)

NextParallel == ParCall \/ RunTask \/ ResumeTask \/ ParReturn

SpecParallel == InitParallel /\ [][NextParallel]_vars

---------------------------------------------------------------------------
(* Properties of transcribe_parallel *)

ResultPaths == [i \in 1..Len(par.results) |-> par.results[i].path]

\* a path with one of the five audio suffixes, in any letter case
HasAudioSuffix(path) ==
    \E ext \in {"mp3", "wav", "m4a", "flac", "ogg"} :
        lower(suffix(path)) = <<".", ext>>

HasOtherSuffix(path) == ~HasAudioSuffix(path)

\* C5: with prioritize_audio the results are those of the audio paths in
\* input order followed by those of the other paths in input order; without
\* it they are in input order.
C5_PrioritizedOrder ==
    par.pc = "returned" =>
        /\ par.prioritize_audio =>
              ResultPaths = SelectSeq(par.audio_paths, HasAudioSuffix)
                            \o SelectSeq(par.audio_paths, HasOtherSuffix)
        /\ ~par.prioritize_audio => ResultPaths = par.audio_paths
        /\ (par.prioritize_audio
            /\ par.audio_paths = << <<"v", ".", "mp4">>, <<"a", ".", "mp3">>,
                                    <<"b", ".", "wav">> >>)
           => ResultPaths = << <<"a", ".", "mp3">>, <<"b", ".", "wav">>,
                               <<"v", ".", "mp4">> >>

\* [v.mp4, a.mp3, b.wav] was run with prioritize_audio
C5_Witness ==
    /\ par.pc = "returned"
    /\ par.prioritize_audio
    /\ par.audio_paths = << <<"v", ".", "mp4">>, <<"a", ".", "mp3">>, <<"b", ".", "wav">> >>
    /\ Len(par.results) = 3

\* C6: one result record per input path, each with the success, text and
\* error of that item's own transcribe call, whatever the other items did.
C6_IndependentItems ==
    par.pc \in {"gather", "returned", "raised"} =>
        /\ par.pc # "raised"
        /\ par.pc = "returned" =>
              /\ Len(par.results) = Len(par.audio_paths)
              /\ Len(par.tasks) = Len(par.audio_paths)
              /\ \A i \in 1..Len(par.results) :
                    /\ par.results[i].path = par.tasks[i].path
                    /\ par.results[i].success = par.tasks[i].out.ret.success
                    /\ par.results[i].text = par.tasks[i].out.ret.text
                    /\ par.results[i].error = par.tasks[i].out.ret.error

\* a batch returned with a failed item before a successful one
C6_Witness ==
    /\ par.pc = "returned"
    /\ Len(par.results) = 3
    /\ ~par.results[1].success
    /\ par.results[2].success
    /\ ~par.results[3].success

\* C7: the calls of all items are in flight together: no item's call ends
\* with a transcription while another item's call has not started.
C7_AllInFlightTogether ==
    par.pc = "gather" =>
        \A i, j \in 1..Len(par.tasks) :
            (par.tasks[i].pc = "done" /\ par.tasks[i].out.ret.success)
                => par.tasks[j].pc # "created"

---------------------------------------------------------------------------
(* run_llm_benchmark and run_transcription_benchmark *)

\* what the providers of the compared LLMs answer: a text, a completion
\* without content, an error
\* an output longer than the judge's limit, one character a token
LongText == [i \in 1..(JudgeLimit + 2) |-> IF i <= JudgeLimit THEN "x" ELSE "y"]

BenchLLMWorlds ==
    {[openai |-> r, gemini |-> DefaultGemini, ollama |-> DefaultOllama] :
        r \in {[DefaultOpenAI EXCEPT !.choices = <<<<"Meeting summary.">>>>],
               [DefaultOpenAI EXCEPT !.choices = <<LongText>>],
               DefaultOpenAI,
               [DefaultOpenAI EXCEPT !.exc = Exc("Exception", <<"rate limit exceeded">>)]}}
    \cup {[openai |-> DefaultOpenAI, gemini |-> DefaultGemini, ollama |-> r] :
        r \in {[DefaultOllama EXCEPT !.has_response = TRUE,
                                     !.response = <<"Notes of the meeting.">>],
               [DefaultOllama EXCEPT !.exc = Exc("ConnectError", <<"connection refused">>)]}}

\* what the backends of the compared transcription models do
BenchTrWorlds ==
    ParWorlds
    \cup {World(DefaultLocal,
                [DefaultRemote EXCEPT !.success = "false", !.has_error = TRUE],
                DefaultApi, DefaultGoogle),
          World([DefaultLocal EXCEPT !.reply = [has_text |-> TRUE, text |-> LongText]],
                [DefaultRemote EXCEPT !.success = "true",
                                      !.reply = [has_text |-> TRUE, text |-> LongText]],
                DefaultApi, DefaultGoogle)}

\* replies of the judge
JudgeTexts ==
    {<<"SCORE_A", ":", " ", "8", "\n", "SCORE_B", ":", " ", "6", "\n",
       "WINNER", ":", " ", "A", "\n", "REASONING", ":", " ", "A was clearer.">>,
     <<"SCORE_A", ":", " ", "11", "\n", "SCORE_B", ":", " ", "high", "\n",
       "REASONING", ":", " ", "A wins", ":", " ", "clearer.", "\n",
       "WINNER", ":", " ", "both">>,
     <<"Both outputs are fine.">>}

JudgeWorlds ==
    {[openai |-> DefaultOpenAI, gemini |-> r, ollama |-> DefaultOllama] :
        r \in {[DefaultGemini EXCEPT !.text = t] : t \in JudgeTexts \cup {<< >>}}
              \cup {[DefaultGemini EXCEPT !.exc = Exc("Exception", <<"quota exceeded">>)],
                    [DefaultGemini EXCEPT !.installed = FALSE]}}

BenchLLMModelIds == {<<"gpt-4">>, <<"llama2">>}

BenchTrModelIds == {<<"whisper-base">>, <<"whisper-remote-small">>, <<"whisper-huge">>}

IdleBench ==
    [pc |-> "idle", kind |-> "none", model_a |-> << >>, model_b |-> << >>,
     judge_model |-> << >>, prompt_type |-> << >>, language |-> << >>,
     a |-> Triple(NoRet4), b |-> Triple(NoRet4), j |-> Triple(NoRet4),
     invoked |-> << >>, log |-> << >>, judge_prompt |-> None,
     result |-> BenchRet(FALSE, NoResults, None)]

InitBench ==
    /\ settings \in {c \in StartSettings : c.whisper_device = "cpu"}
    /\ _model = None
    /\ _model_size = None
    /\ call = NoCall
    /\ par = NoPar
    /\ bench = IdleBench
    /\ benchmark_results = << >>
    /\ request = NoRequest
    /\ _model_cache = << >>
    /\ temp_files = {}
    /\ server = NoServer
    /\ cuda_available = FALSE

\* run_llm_benchmark is called: lines 174-185, up to the await of model A's
\* call; build_prompt calls no provider
LLMBenchCall ==
    \E model_a \in BenchLLMModelIds, model_b \in BenchLLMModelIds :
        /\ bench.pc = "idle"
        /\ bench' = [IdleBench EXCEPT !.pc = "in_a", !.kind = "llm",
                                      !.model_a = model_a, !.model_b = model_b,
                                      !.judge_model = <<"gemini-pro">>,
                                      !.prompt_type = <<"summary">>,
                                      !.log = <<"a_start">>]
        /\ UNCHANGED <<settings, _model, _model_size, call, par, benchmark_results, request, server_vars>>

\* run_transcription_benchmark is called: lines 112-114
TranscriptionBenchCall ==
    \E model_a \in BenchTrModelIds, model_b \in BenchTrModelIds :
        /\ bench.pc = "idle"
        /\ bench' = [IdleBench EXCEPT !.pc = "in_a", !.kind = "transcription",
                                      !.model_a = model_a, !.model_b = model_b,
                                      !.judge_model = <<"gemini-pro">>,
                                      !.language = <<"en">>,
                                      !.log = <<"a_start">>]
        /\ UNCHANGED <<settings, _model, _model_size, call, par, benchmark_results, request, server_vars>>

\* the await of model A's call ends with outcome r: an exception goes to the
\* except clause, a return value is unpacked and model B is called
model_a_returns(st, r) ==
    IF r.out.raised
    THEN Finish([st EXCEPT !.invoked = @ \o r.invoked], bench_except(r.out.exc))
    ELSE after_model_a([st EXCEPT !.a = Triple(r.out.ret),
                                  !.invoked = @ \o r.invoked,
                                  !.log = Append(@, "a_return")])

model_b_returns(st, r) ==
    IF r.out.raised
    THEN Finish([st EXCEPT !.invoked = @ \o r.invoked], bench_except(r.out.exc))
    ELSE after_model_b([st EXCEPT !.b = Triple(r.out.ret),
                                  !.invoked = @ \o r.invoked,
                                  !.log = Append(@, "b_return")])

judge_returns(st, r) ==
    IF r.out.raised
    THEN Finish([st EXCEPT !.invoked = @ \o r.invoked], bench_except(r.out.exc))
    ELSE after_judge([st EXCEPT !.j = Triple(r.out.ret),
                                !.invoked = @ \o r.invoked,
                                !.log = Append(@, "j_return")])

\* lines 181-191: generate for model A returns, generate for model B starts
GenerateA ==
    \E w \in BenchLLMWorlds :
        /\ bench.pc = "in_a" /\ bench.kind = "llm"
        /\ bench' = model_a_returns(bench, generate(bench.model_a, w))
        /\ UNCHANGED <<settings, _model, _model_size, call, par, benchmark_results, request, server_vars>>

\* lines 187-211: generate for model B returns
GenerateB ==
    \E w \in BenchLLMWorlds :
        /\ bench.pc = "in_b" /\ bench.kind = "llm"
        /\ bench' = model_b_returns(bench, generate(bench.model_b, w))
        /\ UNCHANGED <<settings, _model, _model_size, call, par, benchmark_results, request, server_vars>>

\* lines 114-115: transcribe for model A returns, transcribe for model B starts
TranscribeA ==
    \E w \in BenchTrWorlds :
        LET t == transcribe(AudioPath, bench.model_a, bench.language, w)
        IN /\ bench.pc = "in_a" /\ bench.kind = "transcription"
           /\ bench' = model_a_returns(bench, t)
           /\ _model' = t.out.model
           /\ _model_size' = t.out.model_size
           /\ UNCHANGED <<settings, call, par, benchmark_results, request, server_vars>>

\* lines 115-134: transcribe for model B returns
TranscribeB ==
    \E w \in BenchTrWorlds :
        LET t == transcribe(AudioPath, bench.model_b, bench.language, w)
        IN /\ bench.pc = "in_b" /\ bench.kind = "transcription"
           /\ bench' = model_b_returns(bench, t)
           /\ _model' = t.out.model
           /\ _model_size' = t.out.model_size
           /\ UNCHANGED <<settings, call, par, benchmark_results, request, server_vars>>

\* lines 130-155 / 207-231: generate for the judge returns
Judge ==
    \E w \in JudgeWorlds :
        /\ bench.pc = "in_judge"
        /\ bench' = judge_returns(bench, generate(bench.judge_model, w))
        /\ UNCHANGED <<settings, _model, _model_size, call, par, benchmark_results, request, server_vars>>

NextBench ==
    LLMBenchCall \/ TranscriptionBenchCall \/ GenerateA \/ GenerateB
    \/ TranscribeA \/ TranscribeB \/ Judge

SpecBench == InitBench /\ [][NextBench]_vars

---------------------------------------------------------------------------
(* Claims about the comparisons *)

Logged(e) == \E i \in 1..Len(bench.log) : bench.log[i] = e

\* C8: when model A's or model B's call fails, the comparison returns
\* (False, None, error); error names the first side that failed, with its
\* model id and the error of that call (model B when only B failed), and
\* the judge is not called.
C8_FailedSideNamed ==
    (bench.pc = "returned" /\ Logged("b_return")
     /\ (~bench.a.success \/ ~bench.b.success))
    => /\ bench.result.ok = FALSE
       /\ bench.result.results.is_none
       /\ ~bench.a.success
          => bench.result.error
             = <<"Model A (">> \o bench.model_a \o <<") failed: ">> \o Str(bench.a.error)
       /\ (bench.a.success /\ ~bench.b.success)
          => bench.result.error
             = <<"Model B (">> \o bench.model_b \o <<") failed: ">> \o Str(bench.b.error)
       /\ ~Logged("j_start")
       /\ \A i \in 1..Len(bench.invoked) :
              bench.invoked[i].adapter # "generate_with_gemini"

C8_Witness ==
    /\ bench.pc = "returned"
    /\ bench.a.success
    /\ ~bench.b.success
    /\ bench.b.error = <<"rate limit exceeded">>
    /\ bench.result.error
       = <<"Model B (", "gpt-4", ") failed: ", "rate limit exceeded">>

\* C9: when both model calls succeeded and the judge call returned
\* success=False, the comparison returns (True, results, None): the two
\* outputs, both scores None, and the reasoning "Judge failed: " followed by
\* the judge's error.
C9_JudgeFailureKeepsOutputs ==
    (bench.pc = "returned" /\ Logged("j_return") /\ ~bench.j.success)
    => /\ bench.a.success /\ bench.b.success
       /\ bench.j.error # None
       /\ bench.result
          = [ok |-> TRUE,
             results |-> [is_none |-> FALSE,
                          output_a |-> bench.a.text, output_b |-> bench.b.text,
                          score_a |-> None, score_b |-> None,
                          judge_reasoning |-> <<"Judge failed: ">> \o bench.j.error],
             error |-> None]

C9_Witness ==
    /\ bench.pc = "returned"
    /\ Logged("j_return")
    /\ ~bench.j.success
    /\ bench.j.error = <<"quota exceeded">>
    /\ bench.result.results.output_a = <<"Meeting summary.">>
    /\ bench.result.results.output_b = <<"Notes of the meeting.">>

CallSequence == <<"a_start", "a_return", "b_start", "b_return", "j_start", "j_return">>

\* C10: the calls of a comparison are made in sequence and at most once
\* each: model B's call starts after model A's has returned, whatever A's
\* outcome, the judge's starts after both have returned success, and a
\* comparison that has returned has called model B.
C10_CallsInSequence ==
    /\ Len(bench.log) <= Len(CallSequence)
    /\ bench.log = SubSeq(CallSequence, 1, Len(bench.log))
    /\ Logged("a_return") => Logged("b_start")
    /\ Logged("j_start") => (bench.a.success /\ bench.b.success)
    /\ bench.pc = "returned" => Logged("b_return")
    /\ Len(bench.invoked) <= Cardinality({e \in {"a_return", "b_return", "j_return"} : Logged(e)})

C10_Witness ==
    /\ bench.pc = "returned"
    /\ ~bench.a.success
    /\ bench.b.success
    /\ bench.log = <<"a_start", "a_return", "b_start", "b_return">>
    /\ Len(bench.invoked) = 2

---------------------------------------------------------------------------
(* routers/benchmark: POST /transcription and POST /llm *)

\* the row the endpoint looked up: a Media or a Transcription
Media == [id |-> <<"1">>, original_filename |-> <<"a", ".", "mp3">>, filepath |-> AudioPath]

TranscriptionRow == [id |-> <<"7">>, title |-> <<"Standup">>]

\* BenchmarkResult(...) of lines 101-113 / 150-162
BenchmarkResult(kind, model_a, model_b, results) ==
    [benchmark_type |-> IF kind = "llm" THEN "llm_processing" ELSE "transcription",
     test_name |-> IF kind = "llm"
                   THEN <<"LLM (", "summary", "): ">> \o TranscriptionRow.title
                   ELSE <<"Transcription: ">> \o Media.original_filename,
     input_reference |-> IF kind = "llm"
                         THEN <<"transcription:">> \o TranscriptionRow.id
                         ELSE <<"media:">> \o Media.id,
     model_a |-> model_a, model_b |-> model_b,
     output_a |-> results.output_a, output_b |-> results.output_b,
     score_a |-> results.score_a, score_b |-> results.score_b,
     judge_model |-> <<"gemini-pro">>,
     judge_reasoning |-> results.judge_reasoning]

\* a row stored by an earlier request
StoredRow ==
    BenchmarkResult("llm", <<"gpt-4">>, <<"llama2">>,
                    Results(<<"Meeting summary.">>, <<"Notes of the meeting.">>,
                            <<"8.0">>, <<"6.0">>, <<"A was clearer.">>))

\* the columns declared nullable=False that the endpoint fills from results
NotNullOk(row) == row.output_a # None /\ row.output_b # None

NoRow == BenchmarkResult("none", << >>, << >>, NoResults)

\* the request: pc is where the endpoint stands, before the rows of the
\* table when the request arrived, status/detail/body the response
IdleRequest ==
    [pc |-> "idle", endpoint |-> "none", before |-> << >>,
     status |-> "none", detail |-> None, body |-> NoRow]

\* raise HTTPException(status_code=..., detail=...)
HTTPException(req, status_code, detail) ==
    [req EXCEPT !.pc = "responded", !.status = status_code, !.detail = detail]

\* detail=error or "Benchmark failed"
failure_detailGeneric(error) == <<"Benchmark failed">>

failure_detail(error) == IF Truthy(error) THEN error ELSE <<"Benchmark failed">>

\* lines 97-119 / 146-168: the comparison st has returned to the endpoint;
\* the result is the response and the rows of the table.  A commit that
\* violates a NOT NULL column raises, and get_db rolls the session back.
api_after_benchmark(req, st, rows) ==
    IF ~st.result.ok
    THEN [request |-> HTTPException(req, "500", failure_detail(st.result.error)),
          rows |-> rows]
    ELSE LET benchmark == BenchmarkResult(st.kind, st.model_a, st.model_b,
                                          st.result.results)
         IN IF NotNullOk(benchmark)
            THEN [request |-> [req EXCEPT !.pc = "responded", !.status = "200",
                                          !.body = benchmark],
                  rows |-> Append(rows, benchmark)]
            ELSE [request |-> HTTPException(req, "500", <<"Internal Server Error">>),
                  rows |-> rows]

InitBenchApi ==
    /\ settings \in {c \in StartSettings : c.whisper_device = "cpu"}
    /\ _model = None
    /\ _model_size = None
    /\ call = NoCall
    /\ par = NoPar
    /\ bench = IdleBench
    /\ benchmark_results \in {<< >>, <<StoredRow>>}
    /\ request = IdleRequest
    /\ _model_cache = << >>
    /\ temp_files = {}
    /\ server = NoServer
    /\ cuda_available = FALSE

\* POST /transcription, lines 81-95: the media row is looked up and the
\* comparison is called, up to its await of model A's call
run_transcription_benchmark_api ==
    \E found \in BOOLEAN, model_a \in BenchTrModelIds, model_b \in BenchTrModelIds :
        /\ request.pc = "idle"
        /\ bench.pc = "idle"
        /\ IF ~found
           THEN /\ request' = HTTPException(
                        [request EXCEPT !.endpoint = "transcription",
                                        !.before = benchmark_results],
                        "404", <<"Media file not found">>)
                /\ bench' = bench
           ELSE /\ request' = [request EXCEPT !.pc = "awaiting",
                                              !.endpoint = "transcription",
                                              !.before = benchmark_results]
                /\ bench' = [IdleBench EXCEPT !.pc = "in_a", !.kind = "transcription",
                                              !.model_a = model_a, !.model_b = model_b,
                                              !.judge_model = <<"gemini-pro">>,
                                              !.language = <<"en">>,
                                              !.log = <<"a_start">>]
        /\ UNCHANGED <<settings, _model, _model_size, call, par, benchmark_results, server_vars>>

\* POST /llm, lines 129-144
run_llm_benchmark_api ==
    \E found \in BOOLEAN, model_a \in BenchLLMModelIds, model_b \in BenchLLMModelIds :
        /\ request.pc = "idle"
        /\ bench.pc = "idle"
        /\ IF ~found
           THEN /\ request' = HTTPException(
                        [request EXCEPT !.endpoint = "llm",
                                        !.before = benchmark_results],
                        "404", <<"Transcription not found">>)
                /\ bench' = bench
           ELSE /\ request' = [request EXCEPT !.pc = "awaiting", !.endpoint = "llm",
                                              !.before = benchmark_results]
                /\ bench' = [IdleBench EXCEPT !.pc = "in_a", !.kind = "llm",
                                              !.model_a = model_a, !.model_b = model_b,
                                              !.judge_model = <<"gemini-pro">>,
                                              !.prompt_type = <<"summary">>,
                                              !.log = <<"a_start">>]
        /\ UNCHANGED <<settings, _model, _model_size, call, par, benchmark_results, server_vars>>

\* lines 97-119 / 146-168: the comparison has returned and the endpoint
\* answers
ApiRespond ==
    LET r == api_after_benchmark(request, bench, benchmark_results)
    IN /\ request.pc = "awaiting"
       /\ bench.pc = "returned"
       /\ request' = r.request
       /\ benchmark_results' = r.rows
       /\ UNCHANGED <<settings, _model, _model_size, call, par, bench, server_vars>>

NextBenchApi ==
    run_transcription_benchmark_api \/ run_llm_benchmark_api
    \/ GenerateA \/ GenerateB \/ TranscribeA \/ TranscribeB \/ Judge
    \/ ApiRespond

SpecBenchApi == InitBenchApi /\ [][NextBenchApi]_vars

\* C11: a benchmark endpoint stores a row only for a comparison that
\* returned ok=True.  While the comparison runs the table is as the request
\* found it; a comparison that returned ok=False ends in a 500 response whose
\* detail is the comparison's error, the table unchanged; a comparison whose
\* judge alone failed stores one row with the two outputs and null scores.
C11_NoPartialBenchmark ==
    /\ request.pc = "awaiting" => benchmark_results = request.before
    /\ request.pc = "responded"
       => /\ benchmark_results # request.before
             => (bench.pc = "returned" /\ bench.result.ok /\ request.status = "200")
          /\ (bench.pc = "returned" /\ ~bench.result.ok)
             => /\ request.status = "500"
                /\ request.detail = bench.result.error
                /\ bench.result.error # None
                /\ benchmark_results = request.before
          /\ (bench.pc = "returned" /\ Logged("j_return") /\ ~bench.j.success)
             => /\ Len(benchmark_results) = Len(request.before) + 1
                /\ SubSeq(benchmark_results, 1, Len(request.before)) = request.before
                /\ LET row == benchmark_results[Len(benchmark_results)]
                   IN /\ row.output_a = bench.a.text
                      /\ row.output_b = bench.b.text
                      /\ row.score_a = None
                      /\ row.score_b = None
                      /\ row.model_a = bench.model_a
                      /\ row.model_b = bench.model_b

C11_Witness ==
    /\ request.pc = "responded"
    /\ request.before = <<StoredRow>>
    /\ bench.pc = "returned"
    /\ bench.a.success
    /\ ~bench.b.success
    /\ request.status = "500"
    /\ request.detail = <<"Model B (", "llama2", ") failed: ",
                          "Could not connect to Ollama at ", "http://localhost:11434">>
    /\ benchmark_results = <<StoredRow>>

---------------------------------------------------------------------------
(* parse_judge_response on the replies a judge can write *)

MaxReplyLines == 3

\* one line of a reply: a marker, the text after its colon
MarkerLine(marker, text) == <<marker, ":">> \o text

\* the lines a reply is made of: score lines with decimal numbers, with
\* numbers off the scale, with no number; winner lines inside and outside
\* the enum; reasoning lines; free text; an empty line
JudgeLines ==
    {MarkerLine("SCORE_A", <<" ", "8">>), MarkerLine("SCORE_A", <<"8.5">>),
     MarkerLine("SCORE_A", <<" ", "11">>), MarkerLine("SCORE_A", <<" ", "nan">>),
     MarkerLine("SCORE_A", <<" ", "high">>),
     MarkerLine("SCORE_B", <<" ", "6">>), MarkerLine("SCORE_B", <<" ", "10", " ">>),
     MarkerLine("SCORE_B", <<" ">>),
     MarkerLine("WINNER", <<" ", "A">>), MarkerLine("WINNER", <<" ", "B">>),
     MarkerLine("WINNER", <<"TIE">>), MarkerLine("WINNER", <<" ", "Model A">>),
     MarkerLine("REASONING", <<" ", "A was clearer.">>),
     MarkerLine("REASONING", <<" ", "A wins", ":", " ", "clearer.">>),
     MarkerLine("REASONING", << >>),
     <<"Both are fine.">>,
     << >>}

\* the lines of JudgeLines that start with a marker
LinesOf(marker) == {l \in JudgeLines : startswith(l, marker)}

\* replies of up to MaxReplyLines lines in any order, and the replies in the
\* format the prompt asks for: one line of each marker, in order
JudgeReplies ==
    {joinWith(ls, "\n") : ls \in UNION {[1..n -> JudgeLines] : n \in 0..MaxReplyLines}}
    \cup {joinWith(<<a, b, w, r>>, "\n") :
            a \in LinesOf("SCORE_A"), b \in LinesOf("SCORE_B"),
            w \in LinesOf("WINNER"), r \in LinesOf("REASONING")}

InitParse ==
    /\ settings = ConfiguredCpu
    /\ _model = None
    /\ _model_size = None
    /\ call = NoCall
    /\ par = NoPar
    /\ bench = NoBench
    /\ benchmark_results = << >>
    /\ request = NoRequest
    /\ _model_cache = << >>
    /\ temp_files = {}
    /\ server = NoServer
    /\ cuda_available = FALSE

\* one call of parse_judge_response
ParseJudge ==
    /\ call.fn = "none"
    /\ \E response \in JudgeReplies :
           call' = [fn |-> "parse_judge_response", response |-> response,
                    out |-> parse_judge_response(response)]
    /\ UNCHANGED <<settings, _model, _model_size, par, bench, benchmark_results, request, server_vars>>

NextParse == ParseJudge

SpecParse == InitParse /\ [][NextParse]_vars

\* score texts that are decimal numbers, with the number each denotes
C12_Decimals ==
    {[text |-> <<" ", "8">>, number |-> <<"8.0">>],
     [text |-> <<"8.5">>, number |-> <<"8.5">>],
     [text |-> <<" ", "6">>, number |-> <<"6.0">>],
     [text |-> <<" ", "10", " ">>, number |-> <<"10.0">>]}

C12_Winners ==
    {[text |-> <<" ", "A">>, winner |-> <<"A">>],
     [text |-> <<" ", "B">>, winner |-> <<"B">>],
     [text |-> <<"TIE">>, winner |-> <<"TIE">>]}

C12_Reasonings ==
    {[text |-> <<" ", "A was clearer.">>, reasoning |-> <<"A was clearer.">>],
     [text |-> <<" ", "A wins", ":", " ", "clearer.">>,
      reasoning |-> <<"A wins", ":", " ", "clearer.">>]}

\* C12: a reply made of the four lines SCORE_A: x, SCORE_B: y, WINNER: w,
\* REASONING: r, with x and y decimal numbers, w one of A, B, TIE and r a
\* text, is parsed to score_a = x and score_b = y as numbers, winner = w and
\* reasoning = r.
C12_FourLineReply ==
    \A x \in C12_Decimals, y \in C12_Decimals, w \in C12_Winners, r \in C12_Reasonings :
        (/\ call.fn = "parse_judge_response"
         /\ call.response = joinWith(<<MarkerLine("SCORE_A", x.text),
                                       MarkerLine("SCORE_B", y.text),
                                       MarkerLine("WINNER", w.text),
                                       MarkerLine("REASONING", r.text)>>, "\n"))
        => /\ ~call.out.raised
           /\ call.out.value = [score_a |-> x.number, score_b |-> y.number,
                                winner |-> w.winner, reasoning |-> r.reasoning]

C12_Witness ==
    /\ call.fn = "parse_judge_response"
    /\ call.response = <<"SCORE_A", ":", " ", "8", "\n", "SCORE_B", ":", " ", "6", "\n",
                         "WINNER", ":", " ", "A", "\n",
                         "REASONING", ":", " ", "A was clearer.">>
    /\ call.out.value = [score_a |-> <<"8.0">>, score_b |-> <<"6.0">>,
                         winner |-> <<"A">>, reasoning |-> <<"A was clearer.">>]

\* C13: parse_judge_response does not raise on the reply of a judge call
\* that returned success: the comparison parses the text the judge call
\* handed it and returns ok=True.
C13_ParseNeverRaises ==
    (bench.pc = "returned" /\ Logged("j_return") /\ bench.j.success)
    => /\ ~parse_judge_response(bench.j.text).raised
       /\ bench.result.ok

\* the text of a reply from its first REASONING: marker to its end: the
\* rest of the marker's line and every later line, each stripped, joined by
\* single spaces; None when the reply has no REASONING: line
C14_TextAfterMarker(response) ==
    LET lines == split(strip(response), "\n")
        stripped == [i \in 1..Len(lines) |-> strip(lines[i])]
        hits == {i \in 1..Len(lines) : startswith(stripped[i], "REASONING")}
    IN IF hits = {} THEN None
       ELSE LET k == CHOOSE i \in hits : \A j \in hits : i <= j
                first == strip(SubSeq(stripped[k], 3, Len(stripped[k])))
                later == SubSeq(stripped, k + 1, Len(stripped))
                parts == IF first = << >> THEN later ELSE <<first>> \o later
            IN IF parts = << >> THEN None ELSE joinWith(parts, " ")

\* C14: for a reply with a REASONING: line, the reasoning returned is all
\* the text after the marker, every later line included, and no later line
\* is read as anything else.
C14_ReasoningIsRestOfReply ==
    (call.fn = "parse_judge_response" /\ C14_TextAfterMarker(call.response) # None)
    => /\ ~call.out.raised
       /\ call.out.value.reasoning = C14_TextAfterMarker(call.response)

\* the values of float that lie in [1, 10]; 0.0, 11.0 and nan do not
C15_InScale == {<<"6.0">>, <<"8.0">>, <<"8.5">>, <<"10.0">>}

\* C15: in the outcome a comparison returns, score_a and score_b are each
\* None or a number in [1, 10].
C15_ScoresInScale ==
    (bench.pc = "returned" /\ ~bench.result.results.is_none)
    => /\ bench.result.results.score_a \in {None} \cup C15_InScale
       /\ bench.result.results.score_b \in {None} \cup C15_InScale

\* C16: the winner parsed from the judge's reply is None, A, B or TIE, and
\* the outcome of the comparison that returned ok=True carries it.
C16_WinnerInEnum ==
    (bench.pc = "returned" /\ Logged("j_return") /\ bench.j.success /\ bench.result.ok)
    => /\ parse_judge_response(bench.j.text).value.winner
          \in {None, <<"A">>, <<"B">>, <<"TIE">>}
       /\ "winner" \in DOMAIN bench.result.results

\* the setting an adapter needs before it may call its provider, None for
\* the adapters that need none
C17_Credential(adapter) ==
    CASE adapter = "generate_with_openai" -> settings.openai_api_key
      [] adapter = "transcribe_with_whisper_api" -> settings.openai_api_key
      [] adapter = "generate_with_gemini" -> settings.google_gemini_api_key
      [] adapter = "transcribe_with_google_stt" -> settings.google_application_credentials
      [] adapter = "transcribe_with_whisper_remote" -> settings.whisper_remote_url
      [] OTHER -> <<"not needed">>

C17_NotConfigured(adapter) ==
    CASE adapter = "generate_with_openai" -> <<"OpenAI API key not configured">>
      [] adapter = "transcribe_with_whisper_api" -> <<"OpenAI API key not configured">>
      [] adapter = "generate_with_gemini" -> <<"Google Gemini API key not configured">>
      [] adapter = "transcribe_with_google_stt" -> <<"Google Cloud credentials not configured">>
      [] OTHER -> <<"Whisper remote URL not configured">>

\* C17: an adapter invoked without its credential returns a failure with
\* its 'not configured' error and sends nothing to the provider; a call for
\* the whisper_remote backend without the remote URL fails in the dispatcher
\* with its own 'not configured' error and invokes no adapter.
C17_NoCallWithoutCredentials ==
    /\ \A i \in 1..Len(call.invoked) :
          ~Truthy(C17_Credential(call.invoked[i].adapter))
          => /\ call.invoked[i].out.sent = 0
             /\ ~call.invoked[i].out.raised
             /\ ~call.invoked[i].out.ret.success
             /\ call.invoked[i].out.ret.text = None
             /\ call.invoked[i].out.ret.error = C17_NotConfigured(call.invoked[i].adapter)
    /\ (/\ call.fn = "transcribe"
        /\ call.model \in DOMAIN TRANSCRIPTION_MODELS
        /\ TRANSCRIPTION_MODELS[call.model].backend = "whisper_remote"
        /\ ~Truthy(settings.whisper_remote_url))
       => /\ call.invoked = << >>
          /\ call.out.sent = 0
          /\ ~call.out.ret.success
          /\ call.out.ret.error
             = <<"Whisper remote URL not configured. Set WHISPER_REMOTE_URL in .env">>

C17_Witness ==
    /\ call.fn = "generate"
    /\ settings.google_gemini_api_key = None
    /\ Len(call.invoked) = 1
    /\ call.invoked[1].adapter = "generate_with_gemini"
    /\ call.out.sent = 0
    /\ call.out.ret.error = <<"Google Gemini API key not configured">>

\* the GPU error of a first load
C18_GpuError == Exc("RuntimeError", <<"CUDA", " out of memory">>)

\* C18: when the first load of the local model fails with a GPU/CUDA error
\* and the load on CPU that follows succeeds, the local adapter returns
\* (True, text, None) for a model that produces non-empty text, and raises
\* nothing; the model loaded on CPU is the one kept.
C18_CpuRetrySucceeds ==
    /\ \A e \in LocalEnvs, size \in {<<"tiny">>, <<"base">>} :
          (/\ _model = None \/ _model_size # size
           /\ e.installed /\ e.file_exists
           /\ e.load1 = C18_GpuError /\ e.load2 = NoExc
           /\ e.exc = NoExc /\ e.reply = GoodReply)
          => LET o == transcribe_with_whisper_local(AudioPath, size, <<"en">>, e)
             IN /\ ~o.raised
                /\ o.ret = [success |-> TRUE, text |-> <<"hello world">>, error |-> None]
                /\ o.loads = 2
                /\ o.model = size \o <<"cpu">>
    /\ (/\ call.fn = "transcribe"
        /\ Len(call.invoked) = 1
        /\ call.invoked[1].adapter = "transcribe_with_whisper_local"
        /\ call.out.loads = 2
        /\ call.out.model = call.invoked[1].args[2] \o <<"cpu">>
        /\ call.out.model_size = call.invoked[1].args[2])
       => /\ ~call.out.raised
          /\ \/ call.out.ret = [success |-> TRUE, text |-> <<"hello world">>,
                                error |-> None]
             \/ call.out.ret = [success |-> FALSE, text |-> None,
                                error |-> <<"Transcription resulted in empty text">>]

C18_Witness ==
    /\ call.fn = "transcribe"
    /\ settings.whisper_device = "cuda"
    /\ Len(call.invoked) = 1
    /\ call.invoked[1].adapter = "transcribe_with_whisper_local"
    /\ call.out.loads = 2
    /\ call.out.model = <<"base", "cpu">>
    /\ call.out.ret = [success |-> TRUE, text |-> <<"hello world">>, error |-> None]

\* what C19 asks of one outcome o of a remote adapter for the peer's
\* behaviour e; reached says that the adapter got as far as the request
C19_OneRequest(o, e, reached) ==
    /\ ~o.raised
    /\ o.sent = IF reached THEN 1 ELSE 0
    /\ (reached /\ e.exc # NoExc /\ IsInstance(e.exc, "RequestError"))
       => o.ret = [success |-> FALSE, text |-> None,
                   error |-> <<"Connection error to Whisper server: ">> \o e.exc.msg]
    /\ (reached /\ e.exc = NoExc /\ e.status_code \notin {"200", "201"})
       => o.ret = [success |-> FALSE, text |-> None,
                   error |-> <<"HTTP error from Whisper server: ", e.status_code, " - ">>
                             \o e.body]

\* C19: a remote adapter sends at most one request to the peer per call,
\* one when it gets as far as the request, and raises nothing; a connection
\* failure returns (False, None, "Connection error ...") and a non-2xx
\* response (False, None, error) with the peer's status code and body in it.
C19_RemoteOneRequestNoRetry ==
    /\ \A e \in RemoteEnvs :
          /\ C19_OneRequest(
                 transcribe_with_whisper_remote(AudioPath, <<"small">>, <<"en">>, e), e,
                 Truthy(settings.whisper_remote_url) /\ e.file_exists)
          /\ C19_OneRequest(
                 transcribe_with_whisper_remote_url(<<"http://100.64.0.2/a.mp3">>,
                                                    <<"small">>, <<"en">>, e), e,
                 Truthy(settings.whisper_remote_url))
    /\ (/\ call.fn = "transcribe"
        /\ Len(call.invoked) = 1
        /\ call.invoked[1].adapter = "transcribe_with_whisper_remote")
       => /\ ~call.out.raised
          /\ call.out.sent <= 1
          /\ call.out.exc.type = "HTTPStatusError"
             => call.out.ret.error
                = <<"HTTP error from Whisper server: ", "500", " - ",
                    "{\"detail\": \"boom\"}">>
          /\ call.out.exc.type = "ConnectError"
             => call.out.ret.error
                = <<"Connection error to Whisper server: ", "connection refused">>

C19_Witness ==
    /\ call.fn = "transcribe"
    /\ Len(call.invoked) = 1
    /\ call.invoked[1].adapter = "transcribe_with_whisper_remote"
    /\ call.out.sent = 1
    /\ call.out.exc.type = "HTTPStatusError"
    /\ call.out.ret = [success |-> FALSE, text |-> None,
                       error |-> <<"HTTP error from Whisper server: ", "500", " - ",
                                   "{\"detail\": \"boom\"}">>]

\* the first 3000 characters of a text whose tokens are single characters,
\* the whole text when it is shorter
C20_First3000(s) == [i \in 1..(IF Len(s) < 3000 THEN Len(s) ELSE 3000) |-> s[i]]

\* C20: the judge prompt of a comparison embeds the first 3000 characters
\* of each model output, and output_a and output_b of the outcome returned
\* are the complete outputs the two calls returned.
C20_TruncatedForJudgeOnly ==
    /\ Logged("j_start")
       => /\ bench.a.text = bench.invoked[1].out.ret.text
          /\ bench.b.text = bench.invoked[2].out.ret.text
          /\ bench.judge_prompt
             = IF bench.kind = "llm"
               THEN LLM_JUDGE_PROMPT(bench.prompt_type, bench.model_a, bench.model_b,
                                     C20_First3000(bench.a.text),
                                     C20_First3000(bench.b.text))
               ELSE TRANSCRIPTION_JUDGE_PROMPT(bench.model_a, bench.model_b,
                                               C20_First3000(bench.a.text),
                                               C20_First3000(bench.b.text))
    /\ (bench.pc = "returned" /\ bench.result.ok)
       => /\ bench.result.results.output_a = bench.invoked[1].out.ret.text
          /\ bench.result.results.output_b = bench.invoked[2].out.ret.text

C20_Witness ==
    /\ bench.pc = "returned"
    /\ bench.result.ok
    /\ Len(bench.invoked[1].out.ret.text) = 3002
    /\ Len(bench.result.results.output_a) = 3002
    /\ bench.result.results.output_a[3002] = "y"
    /\ bench.result.results.output_b = <<"Meeting summary.">>
    /\ \A i \in 1..Len(bench.judge_prompt) : bench.judge_prompt[i] # "y"

---------------------------------------------------------------------------
(* Claims about the cache of the local adapter *)

\* C21: a model the local adapter has loaded stays cached for the life of
\* the process: no later call, for whatever size, removes or replaces the
\* cached model, so a request for its size never loads again.
C21_CacheEntryPermanent ==
    [][_model # None => (_model' = _model /\ _model_size' = _model_size)]_vars

---------------------------------------------------------------------------
(* The whisper-server (src/whisper-server/app.py): the remote peer *)

_model_sizes == {<<"tiny">>, <<"base">>, <<"small">>, <<"medium">>, <<"large">>}

\* ', '.join(_model_sizes)
model_sizes_joined == <<"tiny, base, small, medium, large">>

\* raise HTTPException(status_code=..., detail=...) in the whisper-server
server_HTTPException(status_code, detail) ==
    [type |-> "HTTPException", msg |-> detail, status_code |-> status_code]

\* cache_key = f"{model_size}_{device}", of the device as requested
cache_key(model_size, device) == model_size \o <<"_", device>>

\* lines 39-44: the device whisper.load_model is called with
server_deviceAsRequested(device) == device

server_device(device) ==
    IF device \in {"gpu", "cuda"}
    THEN (IF cuda_available THEN "cuda" ELSE "cpu")
    ELSE device

\* _model_cache[cache_key] = model
Put(cache, key, model) ==
    [k \in DOMAIN cache \cup {key} |-> IF k = key THEN model ELSE cache[k]]

\* load_model; e.load is what whisper.load_model does.  The result is the
\* returned model or the raised HTTPException, with the cache and the
\* number of loads
load_model(model_size, device, e) ==
    LET key == cache_key(model_size, device)
    IN IF key \in DOMAIN _model_cache
       THEN [raised |-> FALSE, exc |-> NoExc, value |-> _model_cache[key],
             cache |-> _model_cache, loads |-> 0]
       ELSE IF e.load # NoExc
       THEN [raised |-> TRUE,
             exc |-> IF IsInstance(e.load, "Exception")
                     THEN server_HTTPException(
                              "500", <<"Failed to load Whisper model: ">> \o Str(e.load.msg))
                     ELSE e.load,
             value |-> None, cache |-> _model_cache, loads |-> 1]
       ELSE LET model == model_size \o <<server_device(device)>>
            IN [raised |-> FALSE, exc |-> NoExc, value |-> model,
                cache |-> Put(_model_cache, key, model), loads |-> 1]

\* the outcome of a handler body: the returned JSON object or the raised
\* exception, with the cache and the number of loads
ServerReturn(json, cache, loads) ==
    [raised |-> FALSE, exc |-> NoExc, json |-> json, cache |-> cache, loads |-> loads]
ServerRaise(exc, cache, loads) ==
    [raised |-> TRUE, exc |-> exc, json |-> << >>, cache |-> cache, loads |-> loads]

\* lines 114-138 and 191-214: load the model and transcribe the temporary
\* file; r is the request [model_size, device, language, e]
transcribe_file(r) ==
    LET m == load_model(r.model_size, r.device, r.e)
    IN IF m.raised
       THEN ServerRaise(m.exc, m.cache, m.loads)
       ELSE IF r.e.exc # NoExc
       THEN ServerRaise(r.e.exc, m.cache, m.loads)
       ELSE IF GetText(r.e.reply) = None
       THEN ServerRaise(NoneStrip, m.cache, m.loads)
       ELSE LET text == strip(GetText(r.e.reply))
            IN IF text = << >>
               THEN ServerRaise(
                        server_HTTPException("500", <<"Transcription resulted in empty text">>),
                        m.cache, m.loads)
               ELSE ServerReturn(
                        [success |-> <<"true">>, text |-> text,
                         language |-> IF Truthy(r.language) THEN r.language ELSE <<"en">>,
                         model_size |-> r.model_size],
                        m.cache, m.loads)

\* except HTTPException: raise / except Exception as e: raise
\* HTTPException(500, f"Transcription failed: {str(e)}")
server_except(b) ==
    IF b.raised /\ ~IsInstance(b.exc, "HTTPException") /\ IsInstance(b.exc, "Exception")
    THEN [b EXCEPT !.exc = server_HTTPException(
                               "500", <<"Transcription failed: ">> \o Str(b.exc.msg))]
    ELSE b

\* the except clauses of /transcribe/url: a requests.RequestException is a
\* 400 of its own
server_url_except(b) ==
    IF b.raised /\ IsInstance(b.exc, "RequestException")
    THEN [b EXCEPT !.exc = server_HTTPException(
                               "400", <<"Failed to download audio from URL: ">>
                                      \o Str(b.exc.msg))]
    ELSE server_except(b)

\* finally: if temp_file and os.path.exists(temp_file): os.unlink(temp_file)
finally_unlinkNothing(temp_file, files) == files

finally_unlink(temp_file, files) ==
    IF temp_file # None /\ temp_file \in files THEN files \ {temp_file} ELSE files

\* what FastAPI sends for the outcome of a handler: the returned object
\* with status 200, or the HTTPException as {"detail": ...}
http_response(b) ==
    IF b.raised
    THEN [status_code |-> b.exc.status_code, json |-> [detail |-> b.exc.msg]]
    ELSE [status_code |-> "200", json |-> b.json]

\* the check both handlers start with
invalid_model_size ==
    server_HTTPException(
        "400", <<"Invalid model size. Must be one of: ">> \o model_sizes_joined)

\* tempfile.NamedTemporaryFile(delete=False): a name no file has yet
TempNames == {<<"/tmp/tmp1">>, <<"/tmp/tmp2">>}
NewTempFile(files) == CHOOSE f \in TempNames : f \notin files

\* what the adapter's httpx client makes of the peer's response:
\* response.status_code, response.text and response.json()
response_text(response) ==
    IF "detail" \in DOMAIN response.json
    THEN <<"{\"detail\":\"">> \o response.json.detail \o <<"\"}">>
    ELSE <<"{\"success\":true,...}">>

PeerEnv(response) ==
    LET json == response.json
    IN [file_exists |-> TRUE, exc |-> NoExc,
        status_code |-> response.status_code,
        body |-> response_text(response),
        is_dict |-> TRUE,
        success |-> IF "success" \notin DOMAIN json THEN "absent"
                    ELSE IF json.success = <<"true">> THEN "true" ELSE "false",
        has_error |-> "error" \in DOMAIN json,
        error |-> IF "error" \in DOMAIN json THEN json.error ELSE None,
        reply |-> IF "text" \in DOMAIN json
                  THEN [has_text |-> TRUE, text |-> json.text]
                  ELSE [has_text |-> FALSE, text |-> None]]

\* the requests the server receives and what its machine does for each:
\* e is [create, read, download, load, exc, reply], the outcome of creating
\* the temporary file, of reading the upload, of fetching the URL, of
\* whisper.load_model and of model.transcribe
ServerSizes == {<<"base">>, <<"small">>, <<"huge">>}
ServerDevices == {"cpu", "gpu", "cuda"}
ServerLanguages == {None, <<"en">>}

DefaultServerEnv ==
    [create |-> NoExc, read |-> NoExc, download |-> NoExc, load |-> NoExc,
     exc |-> NoExc, reply |-> GoodReply]

ServerEnvs ==
    {[DefaultServerEnv EXCEPT !.reply = r] : r \in Replies}
    \cup {[DefaultServerEnv EXCEPT !.create = Exc("OSError", <<"No space left on device">>)],
          [DefaultServerEnv EXCEPT !.read = Exc("RuntimeError", <<"client disconnected">>)],
          [DefaultServerEnv EXCEPT !.download =
               Exc("RequestException", <<"404 Client Error: Not Found">>)],
          [DefaultServerEnv EXCEPT !.load = Exc("RuntimeError", <<"CUDA", " out of memory">>)],
          [DefaultServerEnv EXCEPT !.exc = Exc("RuntimeError", <<"Failed to load audio">>)]}

NoResponse == [status_code |-> "none", json |-> [detail |-> None]]

\* a request the server is handling
ServerRequest(route, model_size, device, language, e) ==
    [pc |-> "start", route |-> route, model_size |-> model_size, device |-> device,
     language |-> language, e |-> e, temp_file |-> None, loads |-> 0,
     response |-> NoResponse]

\* the handler has finished with outcome b
Responded(r, b) ==
    [r EXCEPT !.pc = "responded", !.response = http_response(b), !.loads = b.loads]

ConfiguredRemote ==
    {c \in StartSettings : c.whisper_remote_url # None /\ c.whisper_device = "cpu"}

InitServer ==
    /\ settings \in ConfiguredRemote
    /\ _model = None
    /\ _model_size = None
    /\ call = NoCall
    /\ par = NoPar
    /\ bench = NoBench
    /\ benchmark_results = << >>
    /\ request = NoRequest
    /\ _model_cache = << >>
    /\ temp_files = {}
    /\ server = NoServer
    /\ cuda_available \in BOOLEAN

\* POST /transcribe up to `content = await file.read()` (lines 98-111)
PostTranscribe ==
    /\ server.pc = "none"
    /\ \E model_size \in ServerSizes, device \in ServerDevices,
          language \in ServerLanguages, e \in ServerEnvs :
          LET r == ServerRequest("/transcribe", model_size, device, language, e)
          IN IF model_size \notin _model_sizes
             THEN /\ server' = Responded(r, ServerRaise(invalid_model_size, _model_cache, 0))
                  /\ UNCHANGED temp_files
             ELSE IF e.create # NoExc
             THEN /\ server' = Responded(r, server_except(ServerRaise(e.create, _model_cache, 0)))
                  /\ temp_files' = finally_unlink(None, temp_files)
             ELSE LET f == NewTempFile(temp_files)
                  IN /\ server' = [r EXCEPT !.pc = "reading", !.temp_file = f]
                     /\ temp_files' = temp_files \cup {f}
    /\ UNCHANGED <<settings, _model, _model_size, call, par, bench, benchmark_results,
                   request, _model_cache, cuda_available>>

\* POST /transcribe from the end of file.read() to the response (lines 111-150)
TranscribeRead ==
    /\ server.pc = "reading"
    /\ LET b == server_except(IF server.e.read # NoExc
                              THEN ServerRaise(server.e.read, _model_cache, 0)
                              ELSE transcribe_file(server))
       IN /\ server' = Responded(server, b)
          /\ _model_cache' = b.cache
          /\ temp_files' = finally_unlink(server.temp_file, temp_files)
    /\ UNCHANGED <<settings, _model, _model_size, call, par, bench, benchmark_results,
                   request, cuda_available>>

\* POST /transcribe/url (lines 172-231): no await, the handler runs in one step
PostTranscribeUrl ==
    /\ server.pc = "none"
    /\ \E model_size \in ServerSizes, device \in ServerDevices,
          language \in ServerLanguages, e \in ServerEnvs :
          LET r == ServerRequest("/transcribe/url", model_size, device, language, e)
              created == e.download = NoExc /\ e.create = NoExc
              f == IF created THEN NewTempFile(temp_files) ELSE None
              b == server_url_except(
                       IF e.download # NoExc THEN ServerRaise(e.download, _model_cache, 0)
                       ELSE IF e.create # NoExc THEN ServerRaise(e.create, _model_cache, 0)
                       ELSE transcribe_file(r))
          IN IF model_size \notin _model_sizes
             THEN /\ server' = Responded(r, ServerRaise(invalid_model_size, _model_cache, 0))
                  /\ UNCHANGED <<temp_files, _model_cache>>
             ELSE /\ server' = Responded([r EXCEPT !.temp_file = f], b)
                  /\ _model_cache' = b.cache
                  /\ temp_files' = finally_unlink(
                         f, IF created THEN temp_files \cup {f} ELSE temp_files)
    /\ UNCHANGED <<settings, _model, _model_size, call, par, bench, benchmark_results,
                   request, cuda_available>>

\* the response has been sent; the server is ready for the next request
ServerRespond ==
    /\ server.pc = "responded"
    /\ server' = NoServer
    /\ UNCHANGED <<settings, _model, _model_size, call, par, bench, benchmark_results,
                   request, _model_cache, temp_files, cuda_available>>

NextServer == PostTranscribe \/ TranscribeRead \/ PostTranscribeUrl \/ ServerRespond

SpecServer == InitServer /\ [][NextServer]_vars

---------------------------------------------------------------------------
(* The two model loaders, called one call after another: load_whisper_model
   in the backend process and load_model in the whisper-server *)

\* what the backend's machine does for one call of load_whisper_model
LoadEnvs ==
    {e \in [installed : BOOLEAN, cuda_available : BOOLEAN,
            load1 : {NoExc} \cup LoadExcs,
            load2 : {NoExc, Exc("RuntimeError", <<"not enough memory">>)},
            disk_cache : BOOLEAN] :
        /\ e.load1 # NoExc \/ (e.load2 = NoExc /\ ~e.disk_cache)
        /\ e.installed \/ (e.load1 = NoExc /\ ~e.cuda_available)}

LoadSizes == {<<"base">>, <<"small">>}

UnsetSettings == {c \in StartSettings : c.whisper_remote_url = None}

InitLoad ==
    /\ settings \in UnsetSettings
    /\ _model = None
    /\ _model_size = None
    /\ call = NoCall
    /\ par = NoPar
    /\ bench = NoBench
    /\ benchmark_results = << >>
    /\ request = NoRequest
    /\ _model_cache = << >>
    /\ temp_files = {}
    /\ server = NoServer
    /\ cuda_available \in BOOLEAN

\* one call of whisper_local.load_whisper_model
LoadWhisperModel ==
    /\ call.fn = "none"
    /\ \E model_size \in {None} \cup LoadSizes, e \in LoadEnvs :
          LET m == load_whisper_model(model_size, e)
          IN /\ call' = [fn |-> "load_whisper_model", model_size |-> model_size,
                         device |-> settings.whisper_device, e |-> e, out |-> m]
             /\ _model' = m.model
             /\ _model_size' = m.model_size
    /\ UNCHANGED <<settings, par, bench, benchmark_results, request, server_vars>>

\* one call of the whisper-server's load_model
LoadModel ==
    /\ call.fn = "none"
    /\ \E model_size \in LoadSizes, device \in ServerDevices, e \in ServerEnvs :
          LET m == load_model(model_size, device, e)
          IN /\ call' = [fn |-> "load_model", model_size |-> model_size,
                         device |-> device, e |-> e, out |-> m]
             /\ _model_cache' = m.cache
    /\ UNCHANGED <<settings, _model, _model_size, par, bench, benchmark_results,
                   request, temp_files, server, cuda_available>>

\* the caller has taken the model or the exception
LoadDone ==
    /\ call.fn \in {"load_whisper_model", "load_model"}
    /\ call' = NoCall
    /\ UNCHANGED <<settings, _model, _model_size, par, bench, benchmark_results,
                   request, server_vars>>

NextLoad == LoadWhisperModel \/ LoadModel \/ LoadDone

SpecLoad == InitLoad /\ [][NextLoad]_vars

---------------------------------------------------------------------------
(* Claims about the model loaders *)

\* the size a call of load_whisper_model asks for
C22_Size == IF call.model_size = None THEN <<"base">> ELSE call.model_size

\* C22: with a gpu or cuda device requested and CUDA unavailable, both
\* loaders load on cpu: a call that has to load fails only if the load (or
\* the import) itself fails, and the model it returns and caches is a cpu
\* model; the missing GPU alone produces no exception.
C22_DeviceFallbackNeverRaises ==
    /\ (/\ call.fn = "load_whisper_model"
        /\ call.device \in {"gpu", "cuda"}
        /\ ~call.e.cuda_available
        /\ call.out.loads > 0 \/ call.out.raised)
       => /\ call.out.raised => (~call.e.installed \/ call.e.load1 # NoExc)
          /\ ~call.out.raised
             => /\ call.out.value = C22_Size \o <<"cpu">>
                /\ _model = C22_Size \o <<"cpu">>
    /\ (/\ call.fn = "load_model"
        /\ call.device \in {"gpu", "cuda"}
        /\ ~cuda_available
        /\ call.out.loads > 0)
       => /\ call.out.raised => call.e.load # NoExc
          /\ ~call.out.raised
             => /\ call.out.value = call.model_size \o <<"cpu">>
                /\ _model_cache[call.model_size \o <<"_", call.device>>]
                   = call.model_size \o <<"cpu">>

\* the backend has just loaded base on cpu with gpu configured and no CUDA,
\* and the server, without CUDA, holds base loaded for a gpu request
C22_Witness ==
    /\ call.fn = "load_whisper_model"
    /\ call.device = "gpu"
    /\ ~call.e.cuda_available
    /\ call.out.loads = 1
    /\ ~call.out.raised
    /\ call.out.value = <<"base", "cpu">>
    /\ ~cuda_available
    /\ <<"base", "_", "gpu">> \in DOMAIN _model_cache
    /\ _model_cache[<<"base", "_", "gpu">>] = <<"base", "cpu">>

\* the GPU errors of a first load
C23_GpuErrors == {Exc("RuntimeError", <<"CUDA", " out of memory">>)}

\* what C23 asks of a finished call of load_whisper_model
C23_Attempts ==
    call.fn = "load_whisper_model"
    => /\ call.out.loads \in {0, 1, 2}
       /\ (call.e.installed /\ call.e.load1 \in C23_GpuErrors /\ call.out.loads > 0)
          => /\ call.out.loads = 2
             /\ call.out.cleared = call.e.disk_cache
             /\ ~call.out.raised <=> call.e.load2 = NoExc
             /\ ~call.out.raised => call.out.value = C22_Size \o <<"cpu">>
       /\ (call.e.installed /\ call.e.load1 # NoExc /\ call.e.load1 \notin C23_GpuErrors
           /\ call.out.loads > 0)
          => /\ call.out.loads = 1
             /\ ~call.out.cleared
             /\ call.out.raised
             /\ call.out.exc.type = "RuntimeError"

\* what C23 asks of the step of a call of load_whisper_model: a call that
\* raises leaves the cached model and size alone, and a call for a size that
\* is not the cached one attempts the load
C23_Step ==
    call'.fn = "load_whisper_model"
    => /\ call'.out.raised => (_model' = _model /\ _model_size' = _model_size)
       /\ (call'.e.installed
           /\ (_model = None
               \/ _model_size # (IF call'.model_size = None THEN <<"base">>
                                 ELSE call'.model_size)))
          => call'.out.loads >= 1

\* C23: a first load that fails with a GPU/CUDA error is followed by exactly
\* one more load, on CPU, after the on-disk cache has been cleared; any other
\* load failure ends the call with an exception after one attempt; a call
\* that fails leaves _model and _model_size as they were, so that a later
\* call for that size attempts the load again.
C23_OneCpuRetryOtherwiseFatal == []C23_Attempts /\ [][C23_Step]_vars

\* a call for small has failed with base cached, and base is still cached
C23_Witness ==
    /\ call.fn = "load_whisper_model"
    /\ call.model_size = <<"small">>
    /\ call.e.load1 \in C23_GpuErrors
    /\ call.out.loads = 2
    /\ call.out.cleared
    /\ call.out.raised
    /\ _model = <<"base", "cuda">>
    /\ _model_size = <<"base">>

---------------------------------------------------------------------------
(* Claims about concurrent first use of the local model *)

---------------------------------------------------------------------------
(* Claims about the whisper-server *)

\* what the remote adapter returns for the response the server has sent
C25_AdapterOutcome ==
    transcribe_with_whisper_remote(AudioPath, server.model_size, server.language,
                                   PeerEnv(server.response))

\* C25: the peer answers every transcription request with a JSON object that
\* has the key success; a failed transcription is an object with
\* success = false and an error string, and that string is the error the
\* remote adapter returns.
C25_FailureInResponseObject ==
    server.pc = "responded"
    => /\ "success" \in DOMAIN server.response.json
       /\ server.response.json.success # <<"true">>
          => /\ "error" \in DOMAIN server.response.json
             /\ C25_AdapterOutcome.ret.error = server.response.json.error

\* the failing input of C25: an upload whose transcription is empty
C25_EmptyTranscription ==
    /\ server.pc = "responded"
    /\ server.route = "/transcribe"
    /\ server.model_size = <<"base">>
    /\ server.e.reply = [has_text |-> TRUE, text |-> <<" ">>]
    /\ server.response = [status_code |-> "500",
                          json |-> [detail |-> <<"Transcription resulted in empty text">>]]
    /\ C25_AdapterOutcome.ret
       = [success |-> FALSE, text |-> None,
          error |-> <<"HTTP error from Whisper server: ", "500", " - ",
                      "{\"detail\":\"", "Transcription resulted in empty text", "\"}">>]

---------------------------------------------------------------------------
(* Claims about the registries *)

\* the ids of TRANSCRIPTION_MODELS
C26_Registered ==
    {<<"whisper-tiny">>, <<"whisper-base">>, <<"whisper-small">>, <<"whisper-medium">>,
     <<"whisper-large">>, <<"whisper-api">>, <<"google-stt">>, <<"whisper-remote-tiny">>,
     <<"whisper-remote-base">>, <<"whisper-remote-small">>, <<"whisper-remote-medium">>,
     <<"whisper-remote-large">>}

\* C26: transcribe with an id that is not in TRANSCRIPTION_MODELS returns
\* (False, None, 'Unknown model: <id>'), invokes no adapter, sends nothing,
\* loads nothing and raises nothing.
C26_UnknownTranscriptionModel ==
    (call.fn = "transcribe" /\ call.model \notin C26_Registered)
    => /\ call.invoked = << >>
       /\ ~call.out.raised
       /\ call.out.ret = [success |-> FALSE, text |-> None,
                          error |-> <<"Unknown model: ">> \o call.model]
       /\ call.out.sent = 0
       /\ call.out.loads = 0

C26_Witness ==
    /\ call.fn = "transcribe"
    /\ call.model = <<"gpt-4">>
    /\ call.out.ret.error = <<"Unknown model: ", "gpt-4">>

---------------------------------------------------------------------------
(* The advertised model ids (get_available_models of both services), each
   dispatched *)

\* llm_service.get_available_models: the ids, in order
llm_get_available_models ==
    << <<"gpt-4">>, <<"gpt-4-turbo">>, <<"gpt-3.5-turbo">>, <<"gemini-pro">>,
       <<"gemini-1.5-pro">>, <<"llama2">>, <<"llama2:13b">>, <<"mistral">>,
       <<"mixtral">> >>

\* the five remote ids, added if settings.whisper_remote_url
remote_models ==
    << <<"whisper-remote-tiny">>, <<"whisper-remote-base">>, <<"whisper-remote-small">>,
       <<"whisper-remote-medium">>, <<"whisper-remote-large">> >>

\* transcription_service.get_available_models: the ids, in order
local_and_cloud_models ==
    << <<"whisper-tiny">>, <<"whisper-base">>, <<"whisper-small">>, <<"whisper-medium">>,
       <<"whisper-large">>, <<"whisper-api">>, <<"google-stt">> >>

transcription_get_available_modelsAlwaysRemote == local_and_cloud_models \o remote_models

transcription_get_available_models ==
    local_and_cloud_models
    \o (IF Truthy(settings.whisper_remote_url) THEN remote_models ELSE << >>)

\* generate is called with an advertised id
GenerateAdvertised ==
    /\ call.fn = "none"
    /\ \E i \in 1..Len(llm_get_available_models), w \in LLMWorlds :
          LET model == llm_get_available_models[i]
              g == generate(model, w)
          IN call' = [fn |-> "generate", model |-> model, language |-> << >>,
                      invoked |-> g.invoked, out |-> g.out]
    /\ UNCHANGED <<settings, _model, _model_size, par, bench, benchmark_results,
                   request, server_vars>>

\* transcribe is called with an advertised id
TranscribeAdvertised ==
    /\ call.fn = "none"
    /\ \E i \in 1..Len(transcription_get_available_models), w \in TrWorlds :
          LET model == transcription_get_available_models[i]
              t == transcribe(AudioPath, model, <<"en">>, w)
          IN /\ call' = [fn |-> "transcribe", model |-> model, language |-> <<"en">>,
                         invoked |-> t.invoked, out |-> t.out]
             /\ _model' = t.out.model
             /\ _model_size' = t.out.model_size
    /\ UNCHANGED <<settings, par, bench, benchmark_results, request, server_vars>>

NextAdvertised == GenerateAdvertised \/ TranscribeAdvertised \/ CallDone

SpecAdvertised == Init /\ [][NextAdvertised]_vars

\* the adapter each advertised id stands for
C27_Adapter(id) ==
    CASE id \in {<<"gpt-4">>, <<"gpt-4-turbo">>, <<"gpt-3.5-turbo">>} -> "generate_with_openai"
      [] id \in {<<"gemini-pro">>, <<"gemini-1.5-pro">>} -> "generate_with_gemini"
      [] id \in {<<"llama2">>, <<"llama2:13b">>, <<"mistral">>, <<"mixtral">>}
            -> "generate_with_ollama"
      [] id \in {<<"whisper-tiny">>, <<"whisper-base">>, <<"whisper-small">>,
                 <<"whisper-medium">>, <<"whisper-large">>}
            -> "transcribe_with_whisper_local"
      [] id = <<"whisper-api">> -> "transcribe_with_whisper_api"
      [] id = <<"google-stt">> -> "transcribe_with_google_stt"
      [] id \in {<<"whisper-remote-tiny">>, <<"whisper-remote-base">>,
                 <<"whisper-remote-small">>, <<"whisper-remote-medium">>,
                 <<"whisper-remote-large">>}
            -> "transcribe_with_whisper_remote"
      [] OTHER -> "none"

\* C27: a call of generate or transcribe with an advertised id invokes
\* exactly one adapter, the one of the id's backend, and returns that
\* adapter's outcome: never 'Unknown model', 'Unknown backend' or the
\* dispatcher's own 'remote URL not configured'.
C27_AdvertisedIdsDispatch ==
    call.fn \in {"generate", "transcribe"}
    => /\ Len(call.invoked) = 1
       /\ call.invoked[1].adapter = C27_Adapter(call.model)
       /\ call.out = call.invoked[1].out
       /\ ~call.out.raised
       /\ call.out.ret.error = None
          \/ (/\ call.out.ret.error # <<"Unknown model: ">> \o call.model
              /\ Head(call.out.ret.error) # "Unknown backend: ")

\* a remote id was advertised and reached the remote adapter
C27_Witness ==
    /\ call.fn = "transcribe"
    /\ call.model = <<"whisper-remote-medium">>
    /\ Len(call.invoked) = 1
    /\ call.invoked[1].adapter = "transcribe_with_whisper_remote"
    /\ call.out.sent = 1

---------------------------------------------------------------------------
(* Claims about the result of run_llm_benchmark *)

\* C28: in run_llm_benchmark, whenever both model calls returned
\* success=True the comparison returns ok=True with output_a and output_b
\* the two returned texts, whatever the texts and whatever the judge call
\* returned; it returns ok=False only when a model call reported failure.
C28_OkWheneverBothSucceed ==
    (bench.pc = "returned" /\ bench.kind = "llm" /\ Logged("b_return"))
    => /\ (bench.a.success /\ bench.b.success)
          => /\ bench.result.ok
             /\ ~bench.result.results.is_none
             /\ bench.result.results.output_a = bench.a.text
             /\ bench.result.results.output_b = bench.b.text
       /\ ~bench.result.ok => (~bench.a.success \/ ~bench.b.success)

\* the failing input of C28: both models succeeded and the judge call
\* returned success with the text None
C28_JudgeTextNone ==
    /\ bench.pc = "returned"
    /\ bench.kind = "llm"
    /\ bench.a.success /\ bench.b.success
    /\ bench.a.text # None /\ bench.b.text # None
    /\ Logged("j_return")
    /\ bench.j.success
    /\ bench.j.text = None
    /\ ~bench.result.ok

---------------------------------------------------------------------------
(* Claims about the whisper-server's temporary files and cache *)

\* what C29 asks of a state: no temporary file is left when no request is
\* being handled, and a request with an invalid model_size got a 400
\* without a temporary file or a load
C29_NoFileLeft ==
    /\ server.pc \in {"none", "responded"} => temp_files = {}
    /\ server.pc = "responded" => server.temp_file \notin temp_files
    /\ (server.pc = "responded"
        /\ server.model_size \notin {<<"tiny">>, <<"base">>, <<"small">>, <<"medium">>,
                                     <<"large">>})
       => /\ server.response.status_code = "400"
          /\ server.temp_file = None
          /\ server.loads = 0

\* what C29 asks of a step: rejecting an invalid model_size changes neither
\* the temporary files nor the model cache
C29_RejectedFirst ==
    (server'.pc = "responded"
     /\ server'.model_size \notin {<<"tiny">>, <<"base">>, <<"small">>, <<"medium">>,
                                   <<"large">>})
    => (temp_files' = temp_files /\ _model_cache' = _model_cache)

\* C29: once a request to /transcribe or /transcribe/url has finished, its
\* temporary file no longer exists, on every path; a request with an invalid
\* model_size is answered 400 before a temporary file is created or a model
\* loaded.
C29_TempFileRemoved == []C29_NoFileLeft /\ [][C29_RejectedFirst]_vars

\* an upload whose model load failed: the file was created and is gone
C29_Witness ==
    /\ server.pc = "responded"
    /\ server.route = "/transcribe"
    /\ server.temp_file # None
    /\ server.e.load # NoExc
    /\ server.response.status_code = "500"
    /\ server.response.json.detail
       = <<"Failed to load Whisper model: ", "CUDA", " out of memory">>
    /\ temp_files = {}

\* C30: the server's cache holds each model once per (size, effective
\* device): no two entries hold the same model, and the device in an
\* entry's key is the device its model runs on.
C30_OncePerEffectiveDevice ==
    /\ \A k1 \in DOMAIN _model_cache, k2 \in DOMAIN _model_cache :
          _model_cache[k1] = _model_cache[k2] => k1 = k2
    /\ \A k \in DOMAIN _model_cache : _model_cache[k][2] = k[3]

\* the failing input of C30: without CUDA, base was requested for cpu and
\* for gpu and the cpu model was loaded for each
C30_LoadedTwice ==
    /\ ~cuda_available
    /\ server.pc = "responded"
    /\ server.model_size = <<"base">>
    /\ server.device = "gpu"
    /\ server.loads = 1
    /\ server.response.status_code = "200"
    /\ {<<"base", "_", "cpu">>, <<"base", "_", "gpu">>} \subseteq DOMAIN _model_cache
    /\ _model_cache[<<"base", "_", "cpu">>] = <<"base", "cpu">>
    /\ _model_cache[<<"base", "_", "gpu">>] = <<"base", "cpu">>
=============================================================================
